---- MODULE Spec2Model ----
(***************************************************************************)
(* uithub-local: the comment stripper (src/src/uithub_local/utils.py),    *)
(* the Dump of renderer.py, and main (cli.py) with download_repo           *)
(* (downloader.py).                                                        *)
(*                                                                         *)
(* A text is a sequence of one-character strings.  Every scanner loop of   *)
(* the source is one action per iteration; the loop body is an operator on *)
(* the record of the loop's local variables, and the same operator is      *)
(* iterated to give the function the loop computes.  Cursors are 0-based   *)
(* as in the source.                                                       *)
(***************************************************************************)
EXTENDS Integers, Sequences, FiniteSets, TLC

VARIABLES
    suffix,     \* file_path.suffix of the call
    input,      \* the content argument as passed by the caller
    pc,         \* position of the call
    content,    \* the local variable content (reassigned by the regex passes)
    pending,    \* lines of content.splitlines() not yet iterated
    line,       \* the loop variable of "for line in content.splitlines()"
    lines,      \* the list the line-oriented scanners collect their output in
    st,         \* the locals of the running scanner loop
    output      \* the returned string

VARIABLES
    thread,     \* the thread that is running
    saved       \* the frames of the threads that are not running

VARIABLES
    files,          \* Dump.__init__: one entry per FileInfo, with its token count
    max_tokens,     \* Dump.__init__: <<>> for None, <<n>> for the integer n
    split_tokens,   \* split_by_tokens: its argument
    file_dumps,     \* Dump.file_dumps
    total_tokens,   \* Dump.total_tokens
    chunks,         \* split_by_tokens: chunks
    current_chunk,  \* split_by_tokens: current_chunk
    current_tokens, \* split_by_tokens: current_tokens
    todo,           \* split_by_tokens: the files the for loop has not reached
    returned        \* split_by_tokens: the returned list

VARIABLES
    path,           \* main: the PATH argument, <<>> for None
    local_path,     \* main: --local-path, <<>> for None
    remote_url,     \* main: --remote-url, <<>> for None, <<s>> for the string s
    split,          \* main: --split, <<>> for None, <<n>> for the integer n
    outfile,        \* main: --outfile, <<>> for None
    stdout,         \* main: --stdout/--no-stdout
    outputs,        \* main: <<>> while unbound, <<n>> for a list of n outputs
    raised,         \* the exception in flight or that ended main, "" for none
    subtree,        \* download_repo: subtree
    attempt,        \* download_repo: attempt
    backoff,        \* download_repo: backoff
    response,       \* download_repo: <<>> for None, <<s>> for status_code s
    tmp,            \* download_repo: the state of the TemporaryDirectory
    log             \* the calls made so far: requests.get, time.sleep, ...

\* The state of a run of main and of its call of download_repo.
mainVars ==
    <<path, local_path, remote_url, split, outfile, stdout, outputs, raised,
      subtree, attempt, backoff, response, tmp, log>>

\* The state of a Dump and of a call of split_by_tokens.
dumpVars ==
    <<files, max_tokens, split_tokens, file_dumps, total_tokens, chunks,
      current_chunk, current_tokens, todo, returned>>

\* What no step of a call of strip_comments touches.
outside == <<thread, saved, dumpVars, mainVars>>

vars == <<suffix, input, pc, content, pending, line, lines, st, output, outside>>

\* Number of pieces an input text is built from.
MaxPieces == 4

(***************************************************************************)
(* Python string primitives                                                *)
(***************************************************************************)

\* s[k]
At(s, k) == s[k + 1]

\* s[a:b] for 0 <= a <= b <= len(s)
Slice(s, a, b) == SubSeq(s, a + 1, b)

\* s.startswith(m, k)
StartsWith(s, m, k) == k + Len(m) <= Len(s) /\ SubSeq(s, k + 1, k + Len(m)) = m

\* The characters str.rstrip() removes, among those of the model's texts.
IsSpace(c) == c \in {" ", "\t", "\n", "\r", "\f"}

RECURSIVE RStrip(_)
RStrip(s) ==
    IF s = <<>> THEN s
    ELSE IF IsSpace(s[Len(s)]) THEN RStrip(SubSeq(s, 1, Len(s) - 1))
    ELSE s

\* The line boundaries of str.splitlines(), among the model's characters.
LineBreaks == {"\n", "\r", "\f"}

\* str.splitlines(): "\r\n" is one boundary, a text that ends with a boundary
\* has no empty last line.
RECURSIVE SplitLinesFrom(_, _, _)
SplitLinesFrom(s, start, k) ==
    IF k >= Len(s)
    THEN IF start < Len(s) THEN <<Slice(s, start, Len(s))>> ELSE <<>>
    ELSE IF At(s, k) = "\r" /\ k + 1 < Len(s) /\ At(s, k + 1) = "\n"
    THEN <<Slice(s, start, k)>> \o SplitLinesFrom(s, k + 2, k + 2)
    ELSE IF At(s, k) \in LineBreaks
    THEN <<Slice(s, start, k)>> \o SplitLinesFrom(s, k + 1, k + 1)
    ELSE SplitLinesFrom(s, start, k + 1)

SplitLines(s) == SplitLinesFrom(s, 0, 0)

\* "\n".join(ls)
RECURSIVE JoinLines(_)
JoinLines(ls) ==
    IF ls = <<>> THEN <<>>
    ELSE IF Len(ls) = 1 THEN ls[1]
    ELSE ls[1] \o <<"\n">> \o JoinLines(Tail(ls))

\* s.find(m, k): the least position >= k where m starts, -1 when there is none
RECURSIVE Find(_, _, _)
Find(s, m, k) ==
    IF k + Len(m) > Len(s) THEN -1
    ELSE IF StartsWith(s, m, k) THEN k
    ELSE Find(s, m, k + 1)

\* re.sub(open .*? close, "", s, flags=re.DOTALL) from position k on: the
\* leftmost open with a close after it is removed up to the first such close,
\* and the search goes on behind it; an open with no close after it matches
\* nothing and stays.
RECURSIVE ReSubFrom(_, _, _, _)
ReSubFrom(s, open, close, k) ==
    IF k >= Len(s) THEN <<>>
    ELSE IF StartsWith(s, open, k)
    THEN LET e == Find(s, close, k + Len(open))
         IN  IF e < 0 THEN Slice(s, k, Len(s))
             ELSE ReSubFrom(s, open, close, e + Len(close))
    ELSE <<At(s, k)>> \o ReSubFrom(s, open, close, k + 1)

ReSub(s, open, close) == ReSubFrom(s, open, close, 0)

(***************************************************************************)
(* The locals of a scanner loop                                            *)
(***************************************************************************)

\* The assignments every scanner makes before its loop.
Locals ==
    [i |-> 0, in_single |-> FALSE, in_double |-> FALSE, escape |-> FALSE,
     in_comment |-> FALSE, in_string |-> FALSE, result |-> <<>>]

(***************************************************************************)
(* _strip_c_style_comments                                                 *)
(***************************************************************************)

\* SkipToNewline that lets a "/*" inside the line comment open a block
\* comment: the skip goes on behind its "*/", or to the end of the text.
RECURSIVE SkipToNewlineOrBlock(_, _)
SkipToNewlineOrBlock(c, k) ==
    IF k < Len(c) /\ At(c, k) # "\n"
    THEN IF StartsWith(c, <<"/", "*">>, k)
         THEN LET e == Find(c, <<"*", "/">>, k + 2)
              IN  IF e < 0 THEN Len(c) ELSE SkipToNewlineOrBlock(c, e + 2)
         ELSE SkipToNewlineOrBlock(c, k + 1)
    ELSE k

\* while i < len(content) and content[i] != "\n": i += 1
RECURSIVE SkipToNewline(_, _)
SkipToNewline(c, k) ==
    IF k < Len(c) /\ At(c, k) # "\n" THEN SkipToNewline(c, k + 1) ELSE k

\* SkipBlock that gives up on a comment with no "*/": the cursor stays behind
\* the "/*" and the text after it is scanned as code.
SkipBlockUnclosedKept(c, k) ==
    LET e == Find(c, <<"*", "/">>, k) IN IF e < 0 THEN k ELSE e + 2

\* The loop that skips a block comment, entered with the cursor behind "/*".
RECURSIVE SkipBlock(_, _)
SkipBlock(c, k) ==
    IF k < Len(c)
    THEN IF k + 1 < Len(c) /\ At(c, k) = "*" /\ At(c, k + 1) = "/"
         THEN k + 2
         ELSE SkipBlock(c, k + 1)
    ELSE k

\* CStyleStep without the escape flag: a backslash inside a literal is an
\* ordinary character.
CStyleStepNoEscape(c, s) ==
    LET char == At(c, s.i)
        emit == [s EXCEPT !.result = Append(@, char), !.i = @ + 1]
    IN  IF char = "'" /\ ~s.in_double
        THEN [emit EXCEPT !.in_single = ~s.in_single]
        ELSE IF char = "\"" /\ ~s.in_single
        THEN [emit EXCEPT !.in_double = ~s.in_double]
        ELSE IF ~s.in_single /\ ~s.in_double
        THEN IF char = "/" /\ s.i + 1 < Len(c) /\ At(c, s.i + 1) = "/"
             THEN LET n == SkipToNewline(c, s.i)
                  IN  IF n < Len(c)
                      THEN [s EXCEPT !.result = Append(@, "\n"), !.i = n + 1]
                      ELSE [s EXCEPT !.i = n]
             ELSE IF char = "/" /\ s.i + 1 < Len(c) /\ At(c, s.i + 1) = "*"
             THEN [s EXCEPT !.i = SkipBlock(c, s.i + 2)]
             ELSE emit
        ELSE emit

\* CStyleStep whose "//" case eats the newline that ends the comment.
CStyleStepEatsNewline(c, s) ==
    LET char == At(c, s.i)
        emit == [s EXCEPT !.result = Append(@, char), !.i = @ + 1]
    IN  IF s.escape
        THEN [emit EXCEPT !.escape = FALSE]
        ELSE IF char = "\\" /\ (s.in_single \/ s.in_double)
        THEN [emit EXCEPT !.escape = TRUE]
        ELSE IF char = "'" /\ ~s.in_double
        THEN [emit EXCEPT !.in_single = ~s.in_single]
        ELSE IF char = "\"" /\ ~s.in_single
        THEN [emit EXCEPT !.in_double = ~s.in_double]
        ELSE IF ~s.in_single /\ ~s.in_double
        THEN IF char = "/" /\ s.i + 1 < Len(c) /\ At(c, s.i + 1) = "/"
             THEN LET n == SkipToNewline(c, s.i)
                  IN  [s EXCEPT !.i = IF n < Len(c) THEN n + 1 ELSE n]
             ELSE IF char = "/" /\ s.i + 1 < Len(c) /\ At(c, s.i + 1) = "*"
             THEN [s EXCEPT !.i = SkipBlock(c, s.i + 2)]
             ELSE emit
        ELSE emit

\* CStyleStep whose "//" test reads "i + 2 < len(content)": a "//" that ends
\* the text is emitted.
CStyleStepSlashOffByOne(c, s) ==
    LET char == At(c, s.i)
        emit == [s EXCEPT !.result = Append(@, char), !.i = @ + 1]
    IN  IF s.escape
        THEN [emit EXCEPT !.escape = FALSE]
        ELSE IF char = "\\" /\ (s.in_single \/ s.in_double)
        THEN [emit EXCEPT !.escape = TRUE]
        ELSE IF char = "'" /\ ~s.in_double
        THEN [emit EXCEPT !.in_single = ~s.in_single]
        ELSE IF char = "\"" /\ ~s.in_single
        THEN [emit EXCEPT !.in_double = ~s.in_double]
        ELSE IF ~s.in_single /\ ~s.in_double
        THEN IF char = "/" /\ s.i + 2 < Len(c) /\ At(c, s.i + 1) = "/"
             THEN LET n == SkipToNewline(c, s.i)
                  IN  IF n < Len(c)
                      THEN [s EXCEPT !.result = Append(@, "\n"), !.i = n + 1]
                      ELSE [s EXCEPT !.i = n]
             ELSE IF char = "/" /\ s.i + 1 < Len(c) /\ At(c, s.i + 1) = "*"
             THEN [s EXCEPT !.i = SkipBlock(c, s.i + 2)]
             ELSE emit
        ELSE emit

\* One iteration of the while loop.
CStyleStep(c, s) ==
    LET char == At(c, s.i)
        emit == [s EXCEPT !.result = Append(@, char), !.i = @ + 1]
    IN  IF s.escape
        THEN [emit EXCEPT !.escape = FALSE]
        ELSE IF char = "\\" /\ (s.in_single \/ s.in_double)
        THEN [emit EXCEPT !.escape = TRUE]
        ELSE IF char = "'" /\ ~s.in_double
        THEN [emit EXCEPT !.in_single = ~s.in_single]
        ELSE IF char = "\"" /\ ~s.in_single
        THEN [emit EXCEPT !.in_double = ~s.in_double]
        ELSE IF ~s.in_single /\ ~s.in_double
        THEN IF char = "/" /\ s.i + 1 < Len(c) /\ At(c, s.i + 1) = "/"
             THEN LET n == SkipToNewline(c, s.i)
                  IN  IF n < Len(c)
                      THEN [s EXCEPT !.result = Append(@, "\n"), !.i = n + 1]
                      ELSE [s EXCEPT !.i = n]
             ELSE IF char = "/" /\ s.i + 1 < Len(c) /\ At(c, s.i + 1) = "*"
             THEN [s EXCEPT !.i = SkipBlock(c, s.i + 2)]
             ELSE emit
        ELSE emit

RECURSIVE CStyleScan(_, _)
CStyleScan(c, s) ==
    IF s.i < Len(c) THEN CStyleScan(c, CStyleStep(c, s)) ELSE s.result

StripCStyleComments(c) == CStyleScan(c, Locals)

(***************************************************************************)
(* _strip_hash_comments                                                    *)
(***************************************************************************)

\* HashBreaks with no regard to the quote state: every "#" ends the line.
HashBreaksAnywhere(l, s) == At(l, s.i) = "#"

\* The iteration that leaves the while loop by break.
HashBreaks(l, s) ==
    /\ ~s.escape
    /\ At(l, s.i) = "#"
    /\ ~s.in_single
    /\ ~s.in_double

\* HashStep whose quote cases do not look at the other quote state.
HashStepQuotesUnguarded(l, s) ==
    LET char == At(l, s.i)
        emit == [s EXCEPT !.result = Append(@, char), !.i = @ + 1]
    IN  IF s.escape
        THEN [emit EXCEPT !.escape = FALSE]
        ELSE IF char = "\\" /\ (s.in_single \/ s.in_double)
        THEN [emit EXCEPT !.escape = TRUE]
        ELSE IF char = "'"
        THEN [emit EXCEPT !.in_single = ~s.in_single]
        ELSE IF char = "\""
        THEN [emit EXCEPT !.in_double = ~s.in_double]
        ELSE emit

\* One iteration of the while loop that does not break.
HashStep(l, s) ==
    LET char == At(l, s.i)
        emit == [s EXCEPT !.result = Append(@, char), !.i = @ + 1]
    IN  IF s.escape
        THEN [emit EXCEPT !.escape = FALSE]
        ELSE IF char = "\\" /\ (s.in_single \/ s.in_double)
        THEN [emit EXCEPT !.escape = TRUE]
        ELSE IF char = "'" /\ ~s.in_double
        THEN [emit EXCEPT !.in_single = ~s.in_single]
        ELSE IF char = "\"" /\ ~s.in_single
        THEN [emit EXCEPT !.in_double = ~s.in_double]
        ELSE emit

RECURSIVE HashScan(_, _)
HashScan(l, s) ==
    IF s.i < Len(l) /\ ~HashBreaks(l, s) THEN HashScan(l, HashStep(l, s))
    ELSE RStrip(s.result)

StripHashComments(c) ==
    LET ls == SplitLines(c)
    IN  JoinLines([k \in 1..Len(ls) |-> HashScan(ls[k], Locals)])

(***************************************************************************)
(* _strip_html_comments                                                    *)
(***************************************************************************)

StripHtmlComments(c) == ReSub(c, <<"<", "!", "-", "-">>, <<"-", "-", ">">>)

(***************************************************************************)
(* _strip_css_comments                                                     *)
(***************************************************************************)

\* CssStep with the comment start tested before, and without, the quote state.
CssStepNoStrings(c, s) ==
    LET ch == At(c, s.i)
        next_ch == IF s.i + 1 < Len(c) THEN At(c, s.i + 1) ELSE ""
        emit == [s EXCEPT !.result = Append(@, ch), !.i = @ + 1]
    IN  IF s.in_comment
        THEN IF ch = "*" /\ next_ch = "/"
             THEN [s EXCEPT !.in_comment = FALSE, !.i = @ + 2]
             ELSE [s EXCEPT !.i = @ + 1]
        ELSE IF ch = "/" /\ next_ch = "*"
        THEN [s EXCEPT !.in_comment = TRUE, !.i = @ + 2]
        ELSE IF (s.in_single \/ s.in_double) /\ ch = "\\" /\ s.i + 1 < Len(c)
        THEN [s EXCEPT !.result = @ \o <<ch, At(c, s.i + 1)>>, !.i = @ + 2]
        ELSE IF ch = "'" /\ ~s.in_double
        THEN [emit EXCEPT !.in_single = ~s.in_single]
        ELSE IF ch = "\"" /\ ~s.in_single
        THEN [emit EXCEPT !.in_double = ~s.in_double]
        ELSE emit

\* CssStep whose escape case lacks "i + 1 < length": a backslash that ends the
\* input inside a string moves the cursor two places, past the end.
CssStepEscapeUnguarded(c, s) ==
    LET ch == At(c, s.i)
        next_ch == IF s.i + 1 < Len(c) THEN At(c, s.i + 1) ELSE ""
        emit == [s EXCEPT !.result = Append(@, ch), !.i = @ + 1]
    IN  IF s.in_comment
        THEN IF ch = "*" /\ next_ch = "/"
             THEN [s EXCEPT !.in_comment = FALSE, !.i = @ + 2]
             ELSE [s EXCEPT !.i = @ + 1]
        ELSE IF ~s.in_single /\ ~s.in_double /\ ch = "/" /\ next_ch = "*"
        THEN [s EXCEPT !.in_comment = TRUE, !.i = @ + 2]
        ELSE IF (s.in_single \/ s.in_double) /\ ch = "\\"
        THEN [s EXCEPT !.result = @ \o <<ch, next_ch>>, !.i = @ + 2]
        ELSE IF ch = "'" /\ ~s.in_double
        THEN [emit EXCEPT !.in_single = ~s.in_single]
        ELSE IF ch = "\"" /\ ~s.in_single
        THEN [emit EXCEPT !.in_double = ~s.in_double]
        ELSE emit

\* One iteration of the while loop.
CssStep(c, s) ==
    LET ch == At(c, s.i)
        next_ch == IF s.i + 1 < Len(c) THEN At(c, s.i + 1) ELSE ""
        emit == [s EXCEPT !.result = Append(@, ch), !.i = @ + 1]
    IN  IF s.in_comment
        THEN IF ch = "*" /\ next_ch = "/"
             THEN [s EXCEPT !.in_comment = FALSE, !.i = @ + 2]
             ELSE [s EXCEPT !.i = @ + 1]
        ELSE IF ~s.in_single /\ ~s.in_double /\ ch = "/" /\ next_ch = "*"
        THEN [s EXCEPT !.in_comment = TRUE, !.i = @ + 2]
        ELSE IF (s.in_single \/ s.in_double) /\ ch = "\\" /\ s.i + 1 < Len(c)
        THEN [s EXCEPT !.result = @ \o <<ch, At(c, s.i + 1)>>, !.i = @ + 2]
        ELSE IF ch = "'" /\ ~s.in_double
        THEN [emit EXCEPT !.in_single = ~s.in_single]
        ELSE IF ch = "\"" /\ ~s.in_single
        THEN [emit EXCEPT !.in_double = ~s.in_double]
        ELSE emit

RECURSIVE CssScan(_, _)
CssScan(c, s) ==
    IF s.i < Len(c) THEN CssScan(c, CssStep(c, s)) ELSE s.result

StripCssComments(c) == CssScan(c, Locals)

(***************************************************************************)
(* _strip_line_comment                                                     *)
(***************************************************************************)

\* The iteration that returns line[:i].rstrip().
LineCommentFound(l, marker, s) ==
    LET ch == At(l, s.i)
    IN  /\ ~s.escape
        /\ ch # "\\"
        /\ ~(ch = "'" /\ ~s.in_double)
        /\ ~(ch = "\"" /\ ~s.in_single)
        /\ ~s.in_single
        /\ ~s.in_double
        /\ StartsWith(l, marker, s.i)

\* One iteration of the while loop that does not return.
LineCommentStep(l, s) ==
    LET ch == At(l, s.i)
        adv == [s EXCEPT !.i = @ + 1]
    IN  IF s.escape
        THEN [adv EXCEPT !.escape = FALSE]
        ELSE IF ch = "\\"
        THEN [adv EXCEPT !.escape = TRUE]
        ELSE IF ch = "'" /\ ~s.in_double
        THEN [adv EXCEPT !.in_single = ~s.in_single]
        ELSE IF ch = "\"" /\ ~s.in_single
        THEN [adv EXCEPT !.in_double = ~s.in_double]
        ELSE adv

RECURSIVE LineCommentScan(_, _, _)
LineCommentScan(l, marker, s) ==
    IF s.i < Len(l)
    THEN IF LineCommentFound(l, marker, s)
         THEN RStrip(Slice(l, 0, s.i))
         ELSE LineCommentScan(l, marker, LineCommentStep(l, s))
    ELSE l

StripLineComment(l, marker) == LineCommentScan(l, marker, Locals)

(***************************************************************************)
(* _strip_sql_line_comment, _strip_sql_comments                            *)
(***************************************************************************)

\* The iteration that returns line[:i].rstrip().
SqlLineFound(l, s) ==
    LET ch == At(l, s.i)
    IN  /\ ~(ch = "'" /\ ~s.in_double)
        /\ ~(ch = "\"" /\ ~s.in_single)
        /\ ~s.in_single
        /\ ~s.in_double
        /\ ch = "-"
        /\ s.i + 1 < Len(l)
        /\ At(l, s.i + 1) = "-"

\* SqlLineStep without the doubled-quote case: every quote toggles.
SqlLineStepNoDoubling(l, s) ==
    LET ch == At(l, s.i)
    IN  IF ch = "'" /\ ~s.in_double
        THEN [s EXCEPT !.in_single = ~s.in_single, !.i = @ + 1]
        ELSE IF ch = "\"" /\ ~s.in_single
        THEN [s EXCEPT !.in_double = ~s.in_double, !.i = @ + 1]
        ELSE [s EXCEPT !.i = @ + 1]

\* One iteration of the while loop that does not return.
SqlLineStep(l, s) ==
    LET ch == At(l, s.i)
    IN  IF ch = "'" /\ ~s.in_double
        THEN IF s.in_single /\ s.i + 1 < Len(l) /\ At(l, s.i + 1) = "'"
             THEN [s EXCEPT !.i = @ + 2]
             ELSE [s EXCEPT !.in_single = ~s.in_single, !.i = @ + 1]
        ELSE IF ch = "\"" /\ ~s.in_single
        THEN IF s.in_double /\ s.i + 1 < Len(l) /\ At(l, s.i + 1) = "\""
             THEN [s EXCEPT !.i = @ + 2]
             ELSE [s EXCEPT !.in_double = ~s.in_double, !.i = @ + 1]
        ELSE [s EXCEPT !.i = @ + 1]

RECURSIVE SqlLineScan(_, _)
SqlLineScan(l, s) ==
    IF s.i < Len(l)
    THEN IF SqlLineFound(l, s)
         THEN RStrip(Slice(l, 0, s.i))
         ELSE SqlLineScan(l, SqlLineStep(l, s))
    ELSE l

StripSqlLineComment(l) == SqlLineScan(l, Locals)

\* SqlBlockSub with a greedy pattern, r"/\*.*\*/": the first "/*" is removed
\* up to the last "*/" behind it.
SqlBlockSubGreedy(c) ==
    LET p == Find(c, <<"/", "*">>, 0)
        ends == {k \in (p + 2)..(Len(c) - 2) : StartsWith(c, <<"*", "/">>, k)}
    IN  IF p < 0 \/ ends = {} THEN c
        ELSE Slice(c, 0, p)
                 \o Slice(c, 2 + (CHOOSE k \in ends : \A j \in ends : j <= k), Len(c))

\* re.sub(r"/\*.*?\*/", "", content, flags=re.DOTALL)
SqlBlockSub(c) == ReSub(c, <<"/", "*">>, <<"*", "/">>)

StripSqlComments(c) ==
    LET ls == SplitLines(SqlBlockSub(c))
    IN  JoinLines([k \in 1..Len(ls) |-> StripSqlLineComment(ls[k])])

(***************************************************************************)
(* _strip_lua_comments, _strip_haskell_comments                            *)
(***************************************************************************)

\* re.sub(r"--\[\[.*?\]\]", "", content, flags=re.DOTALL)
LuaBlockSub(c) == ReSub(c, <<"-", "-", "[", "[">>, <<"]", "]">>)

\* re.sub(r"\{-.*?-\}", "", content, flags=re.DOTALL)
HaskellBlockSub(c) == ReSub(c, <<"{", "-">>, <<"-", "}">>)

\* The marker both functions pass to _strip_line_comment.
DashDash == <<"-", "-">>

StripLuaComments(c) ==
    LET ls == SplitLines(LuaBlockSub(c))
    IN  JoinLines([k \in 1..Len(ls) |-> StripLineComment(ls[k], DashDash)])

StripHaskellComments(c) ==
    LET ls == SplitLines(HaskellBlockSub(c))
    IN  JoinLines([k \in 1..Len(ls) |-> StripLineComment(ls[k], DashDash)])

(***************************************************************************)
(* _strip_lisp_comments                                                    *)
(***************************************************************************)

\* The iteration that leaves the while loop by break.
LispBreaks(l, s) ==
    /\ ~s.escape
    /\ At(l, s.i) = ";"
    /\ ~s.in_string

\* LispStep that takes the apostrophe for a string delimiter too.
LispStepQuotesApostrophe(l, s) ==
    LET char == At(l, s.i)
        emit == [s EXCEPT !.result = Append(@, char), !.i = @ + 1]
    IN  IF s.escape
        THEN [emit EXCEPT !.escape = FALSE]
        ELSE IF char = "\\" /\ s.in_string
        THEN [emit EXCEPT !.escape = TRUE]
        ELSE IF char = "\"" \/ char = "'"
        THEN [emit EXCEPT !.in_string = ~s.in_string]
        ELSE emit

\* One iteration of the while loop that does not break.
LispStep(l, s) ==
    LET char == At(l, s.i)
        emit == [s EXCEPT !.result = Append(@, char), !.i = @ + 1]
    IN  IF s.escape
        THEN [emit EXCEPT !.escape = FALSE]
        ELSE IF char = "\\" /\ s.in_string
        THEN [emit EXCEPT !.escape = TRUE]
        ELSE IF char = "\""
        THEN [emit EXCEPT !.in_string = ~s.in_string]
        ELSE emit

RECURSIVE LispScan(_, _)
LispScan(l, s) ==
    IF s.i < Len(l) /\ ~LispBreaks(l, s) THEN LispScan(l, LispStep(l, s))
    ELSE RStrip(s.result)

StripLispComments(c) ==
    LET ls == SplitLines(c)
    IN  JoinLines([k \in 1..Len(ls) |-> LispScan(ls[k], Locals)])

(***************************************************************************)
(* strip_comments: the dispatcher                                          *)
(***************************************************************************)

HashExts ==
    {".py", ".pyw", ".rb", ".sh", ".bash", ".zsh", ".yml", ".yaml", ".toml",
     ".conf", ".ini", ".r", ".pl", ".tcl"}

CStyleExts ==
    {".c", ".h", ".cpp", ".hpp", ".cc", ".cxx", ".java", ".js", ".jsx", ".ts",
     ".tsx", ".go", ".rs", ".cs", ".swift", ".kt", ".kts", ".scala", ".m",
     ".mm", ".php", ".dart"}

HtmlExts == {".html", ".htm", ".xml", ".svg", ".xhtml"}

CssExts == {".css", ".scss", ".sass", ".less"}

SqlExts == {".sql"}

LuaExts == {".lua"}

HaskellExts == {".hs", ".lhs"}

LispExts == {".lisp", ".cl", ".el", ".scm", ".clj", ".cljs"}

\* str.lower() on the suffixes of the model.
Lower(s) ==
    CASE s = ".HTML" -> ".html"
      [] s = ".SQL" -> ".sql"
      [] s = ".Hs" -> ".hs"
      [] s = ".TXT" -> ".txt"
      [] OTHER -> s

\* Family with the final "return content" lost: a suffix that matches no set
\* falls into the hash scanner.
FamilyDefaultsToHash(ext) ==
    IF ext \in CStyleExts THEN "c_style"
    ELSE IF ext \in HtmlExts THEN "html"
    ELSE IF ext \in CssExts THEN "css"
    ELSE IF ext \in SqlExts THEN "sql"
    ELSE IF ext \in LuaExts THEN "lua"
    ELSE IF ext \in HaskellExts THEN "haskell"
    ELSE IF ext \in LispExts THEN "lisp"
    ELSE "hash"

\* The branch strip_comments takes for a lower-cased suffix.
Family(ext) ==
    IF ext \in HashExts THEN "hash"
    ELSE IF ext \in CStyleExts THEN "c_style"
    ELSE IF ext \in HtmlExts THEN "html"
    ELSE IF ext \in CssExts THEN "css"
    ELSE IF ext \in SqlExts THEN "sql"
    ELSE IF ext \in LuaExts THEN "lua"
    ELSE IF ext \in HaskellExts THEN "haskell"
    ELSE IF ext \in LispExts THEN "lisp"
    ELSE "none"

\* strip_comments as a function of its arguments.
StripComments(c, sfx) ==
    LET f == Family(Lower(sfx))
    IN  CASE f = "hash" -> StripHashComments(c)
          [] f = "c_style" -> StripCStyleComments(c)
          [] f = "html" -> StripHtmlComments(c)
          [] f = "css" -> StripCssComments(c)
          [] f = "sql" -> StripSqlComments(c)
          [] f = "lua" -> StripLuaComments(c)
          [] f = "haskell" -> StripHaskellComments(c)
          [] f = "lisp" -> StripLispComments(c)
          [] OTHER -> c

(***************************************************************************)
(* The modelled calls                                                      *)
(***************************************************************************)

\* The suffixes of the modelled calls: one of each family, three of none.
Suffixes ==
    {".py", ".js", ".HTML", ".css", ".SQL", ".lua", ".Hs", ".lisp",
     ".TXT", ".unknown", ""}

\* The pieces the texts given to a family are built from.  "\f" (form feed)
\* stands for the line boundaries of str.splitlines() other than "\n" that
\* Path.read_text() passes on unchanged.
Pieces(f) ==
    CASE f = "hash" ->
           {<<"#">>, <<"'">>, <<"\"">>, <<"\\">>, <<" ">>, <<"\n">>, <<"\f">>, <<"a">>}
      [] f = "c_style" ->
           {<<"/">>, <<"*">>, <<"'">>, <<"\"">>, <<"\\">>, <<"\n">>, <<"a">>}
      [] f = "html" ->
           {<<"<", "!", "-", "-">>, <<"-", "-", ">">>, <<"<", "!">>, <<"-", "-">>,
            <<"a">>, <<"\n">>}
      [] f = "css" ->
           {<<"/">>, <<"*">>, <<"/", "*">>, <<"*", "/">>, <<"'">>, <<"\"">>,
            <<"\\">>, <<"a">>}
      [] f = "sql" ->
           {<<"-">>, <<"'">>, <<"\"">>, <<" ">>, <<"\n">>, <<"\f">>,
            <<"/", "*">>, <<"*", "/">>}
      [] f = "lua" ->
           {<<"-">>, <<"-", "-", "[", "[">>, <<"]", "]">>, <<"'">>, <<"\"">>,
            <<"\\">>, <<" ">>, <<"\n">>}
      [] f = "haskell" ->
           {<<"-">>, <<"{", "-">>, <<"-", "}">>, <<"'">>, <<"\"">>,
            <<"\\">>, <<" ">>, <<"\n">>}
      [] f = "lisp" ->
           {<<";">>, <<"\"">>, <<"'">>, <<"\\">>, <<" ">>, <<"\n">>, <<"a">>}
      [] OTHER ->
           {<<"#">>, <<"/">>, <<" ">>, <<"\n">>}

RECURSIVE Texts(_, _)
Texts(P, n) ==
    IF n = 0 THEN {<<>>}
    ELSE LET T == Texts(P, n - 1) IN T \cup {t \o p : t \in T, p \in P}

\* The threads that call strip_comments.
Threads == {"t1", "t2"}

\* The slot of the running thread in saved: its frame is the variables.
NoFrame ==
    [suffix |-> "", input |-> <<>>, pc |-> "running", content |-> <<>>,
     pending |-> <<>>, line |-> <<>>, lines |-> <<>>, st |-> Locals,
     output |-> <<>>]

\* One thread, no other call.
OneThread ==
    /\ thread = "t1"
    /\ saved = [t \in Threads |-> NoFrame]

\* None
None == <<>>

\* No run of main.
NoMain ==
    /\ path = None
    /\ local_path = None
    /\ remote_url = None
    /\ split = None
    /\ outfile = None
    /\ stdout = TRUE
    /\ outputs = None
    /\ raised = ""
    /\ subtree = None
    /\ attempt = 0
    /\ backoff = 1
    /\ response = None
    /\ tmp = "unset"
    /\ log = <<>>

\* No Dump.
NoDump ==
    /\ files = <<>>
    /\ max_tokens = None
    /\ split_tokens = 0
    /\ file_dumps = <<>>
    /\ total_tokens = 0
    /\ chunks = <<>>
    /\ current_chunk = <<>>
    /\ current_tokens = 0
    /\ todo = <<>>
    /\ returned = <<>>

\* The state of a call of strip_comments(c, path) with path.suffix = sfx.
Call(sfx, c) ==
    /\ suffix = sfx
    /\ input = c
    /\ content = c
    /\ pc = "strip_comments"
    /\ pending = <<>>
    /\ line = <<>>
    /\ lines = <<>>
    /\ st = Locals
    /\ output = <<>>

Init ==
    /\ \E sfx \in Suffixes :
         \E c \in Texts(Pieces(Family(Lower(sfx))), MaxPieces) : Call(sfx, c)
    /\ OneThread
    /\ NoDump
    /\ NoMain

\* strip_comments up to the call of a family's scanner, or its own return.
Dispatch ==
    /\ pc = "strip_comments"
    /\ LET f == Family(Lower(suffix))
       IN  IF f = "none"
           THEN /\ output' = content
                /\ pc' = "done"
           ELSE /\ output' = output
                /\ pc' = f
    /\ UNCHANGED <<outside, suffix, input, content, pending, line, lines, st>>

\* ForLine with the locals set once, before the for loop: the quote and
\* escape state of a line is that the line before left.
ForLineKeepsQuotes(at, to) ==
    /\ pc = at
    /\ pending # <<>>
    /\ line' = Head(pending)
    /\ pending' = Tail(pending)
    /\ st' = [st EXCEPT !.i = 0, !.result = <<>>]
    /\ pc' = to
    /\ UNCHANGED <<outside, suffix, input, content, lines, output>>

\* A scanner's "for line in content.splitlines():" taking the next line and
\* setting the locals of the line's scan.
ForLine(at, to) ==
    /\ pc = at
    /\ pending # <<>>
    /\ line' = Head(pending)
    /\ pending' = Tail(pending)
    /\ st' = Locals
    /\ pc' = to
    /\ UNCHANGED <<outside, suffix, input, content, lines, output>>

\* lines.append(kept), and back to the for loop at pc "to".
AppendLine(kept, to) ==
    /\ lines' = Append(lines, kept)
    /\ pc' = to
    /\ UNCHANGED <<outside, suffix, input, content, pending, line, st, output>>

\* return "\n".join(lines) once the for loop at pc "at" is exhausted.
ReturnJoin(at) ==
    /\ pc = at
    /\ pending = <<>>
    /\ output' = JoinLines(lines)
    /\ pc' = "done"
    /\ UNCHANGED <<outside, suffix, input, content, pending, line, lines, st>>

\* One iteration of a scanner's while loop that stays in the loop.
Iterate(next) ==
    /\ st' = next
    /\ UNCHANGED <<outside, suffix, input, pc, content, pending, line, lines, output>>

(* _strip_hash_comments *)

HashEnter ==
    /\ pc = "hash"
    /\ pending' = SplitLines(content)
    /\ lines' = <<>>
    /\ pc' = "hash_for"
    /\ UNCHANGED <<outside, suffix, input, content, line, st, output>>

HashFor == ForLine("hash_for", "hash_while")

HashWhile ==
    /\ pc = "hash_while"
    /\ st.i < Len(line)
    /\ IF HashBreaks(line, st)
       THEN AppendLine(RStrip(st.result), "hash_for")
       ELSE Iterate(HashStep(line, st))

HashLineEnd ==
    /\ pc = "hash_while"
    /\ ~(st.i < Len(line))
    /\ AppendLine(RStrip(st.result), "hash_for")

HashReturn == ReturnJoin("hash_for")

(* _strip_c_style_comments *)

CStyleWhile ==
    /\ pc = "c_style"
    /\ st.i < Len(content)
    /\ Iterate(CStyleStep(content, st))

CStyleReturn ==
    /\ pc = "c_style"
    /\ ~(st.i < Len(content))
    /\ output' = st.result
    /\ pc' = "done"
    /\ UNCHANGED <<outside, suffix, input, content, pending, line, lines, st>>

(* _strip_html_comments *)

HtmlReturn ==
    /\ pc = "html"
    /\ output' = StripHtmlComments(content)
    /\ pc' = "done"
    /\ UNCHANGED <<outside, suffix, input, content, pending, line, lines, st>>

(* _strip_css_comments *)

CssWhile ==
    /\ pc = "css"
    /\ st.i < Len(content)
    /\ Iterate(CssStep(content, st))

CssReturn ==
    /\ pc = "css"
    /\ ~(st.i < Len(content))
    /\ output' = st.result
    /\ pc' = "done"
    /\ UNCHANGED <<outside, suffix, input, content, pending, line, lines, st>>

(* _strip_sql_comments *)

SqlSub ==
    /\ pc = "sql"
    /\ content' = SqlBlockSub(content)
    /\ pending' = SplitLines(content')
    /\ lines' = <<>>
    /\ pc' = "sql_for"
    /\ UNCHANGED <<outside, suffix, input, line, st, output>>

SqlFor == ForLine("sql_for", "sql_while")

SqlWhile ==
    /\ pc = "sql_while"
    /\ st.i < Len(line)
    /\ IF SqlLineFound(line, st)
       THEN AppendLine(RStrip(Slice(line, 0, st.i)), "sql_for")
       ELSE Iterate(SqlLineStep(line, st))

SqlLineEnd ==
    /\ pc = "sql_while"
    /\ ~(st.i < Len(line))
    /\ AppendLine(line, "sql_for")

SqlReturn == ReturnJoin("sql_for")

(* _strip_lua_comments, _strip_haskell_comments *)

LuaSub ==
    /\ pc = "lua"
    /\ content' = LuaBlockSub(content)
    /\ pending' = SplitLines(content')
    /\ lines' = <<>>
    /\ pc' = "dash_for"
    /\ UNCHANGED <<outside, suffix, input, line, st, output>>

HaskellSub ==
    /\ pc = "haskell"
    /\ content' = HaskellBlockSub(content)
    /\ pending' = SplitLines(content')
    /\ lines' = <<>>
    /\ pc' = "dash_for"
    /\ UNCHANGED <<outside, suffix, input, line, st, output>>

DashFor == ForLine("dash_for", "dash_while")

DashWhile ==
    /\ pc = "dash_while"
    /\ st.i < Len(line)
    /\ IF LineCommentFound(line, DashDash, st)
       THEN AppendLine(RStrip(Slice(line, 0, st.i)), "dash_for")
       ELSE Iterate(LineCommentStep(line, st))

DashLineEnd ==
    /\ pc = "dash_while"
    /\ ~(st.i < Len(line))
    /\ AppendLine(line, "dash_for")

DashReturn == ReturnJoin("dash_for")

(* _strip_lisp_comments *)

LispEnter ==
    /\ pc = "lisp"
    /\ pending' = SplitLines(content)
    /\ lines' = <<>>
    /\ pc' = "lisp_for"
    /\ UNCHANGED <<outside, suffix, input, content, line, st, output>>

LispFor == ForLine("lisp_for", "lisp_while")

LispWhile ==
    /\ pc = "lisp_while"
    /\ st.i < Len(line)
    /\ IF LispBreaks(line, st)
       THEN AppendLine(RStrip(st.result), "lisp_for")
       ELSE Iterate(LispStep(line, st))

LispLineEnd ==
    /\ pc = "lisp_while"
    /\ ~(st.i < Len(line))
    /\ AppendLine(RStrip(st.result), "lisp_for")

LispReturn == ReturnJoin("lisp_for")

Next ==
    \/ Dispatch
    \/ HashEnter \/ HashFor \/ HashWhile \/ HashLineEnd \/ HashReturn
    \/ CStyleWhile \/ CStyleReturn
    \/ HtmlReturn
    \/ CssWhile \/ CssReturn
    \/ SqlSub \/ SqlFor \/ SqlWhile \/ SqlLineEnd \/ SqlReturn
    \/ LuaSub \/ HaskellSub
    \/ DashFor \/ DashWhile \/ DashLineEnd \/ DashReturn
    \/ LispEnter \/ LispFor \/ LispWhile \/ LispLineEnd \/ LispReturn

Spec == Init /\ [][Next]_vars

\* The steps agree with the functions they iterate.
StepsComputeStripComments ==
    pc = "done" => output = StripComments(input, suffix)

(***************************************************************************)
(* Calls of strip_comments on several threads                              *)
(*                                                                         *)
(* strip_comments and its scanners assign to their arguments and locals    *)
(* only: a thread's call is its frame.  One thread runs at a time; when    *)
(* the interpreter switches threads the frame of the running call is put   *)
(* aside and the frame of the other call is taken up where it was left.    *)
(***************************************************************************)

\* Number of pieces a text is built from when several threads call.
MaxThreadPieces == 2

\* The suffixes of the calls made on several threads: one of each family.
ThreadSuffixes ==
    {".py", ".js", ".HTML", ".css", ".SQL", ".lua", ".Hs", ".lisp", ".TXT"}

\* The pieces of their texts.
ThreadPieces(f) ==
    CASE f = "hash" -> {<<"#">>, <<"\n">>}
      [] f = "c_style" -> {<<"/">>, <<"\n">>}
      [] f = "html" -> {<<"<", "!", "-", "-">>, <<"-", "-", ">">>}
      [] f = "css" -> {<<"/", "*">>, <<"*", "/">>}
      [] f = "sql" -> {<<"-">>, <<"\n">>}
      [] f = "lua" -> {<<"-">>, <<"\n">>}
      [] f = "haskell" -> {<<"-">>, <<"\n">>}
      [] f = "lisp" -> {<<";">>, <<"\n">>}
      [] OTHER -> {<<"#">>, <<"\n">>}

\* The frame of a call that has not started.
NewFrame(sfx, c) ==
    [suffix |-> sfx, input |-> c, pc |-> "strip_comments", content |-> c,
     pending |-> <<>>, line |-> <<>>, lines |-> <<>>, st |-> Locals,
     output |-> <<>>]

\* The frame of the running call.
Frame ==
    [suffix |-> suffix, input |-> input, pc |-> pc, content |-> content,
     pending |-> pending, line |-> line, lines |-> lines, st |-> st,
     output |-> output]

\* Resume with the list lines kept in one place for all calls instead of in
\* the frame: the resumed call goes on with the list the other call left.
ResumeSharedLines(f) ==
    /\ suffix' = f.suffix
    /\ input' = f.input
    /\ pc' = f.pc
    /\ content' = f.content
    /\ pending' = f.pending
    /\ line' = f.line
    /\ lines' = lines
    /\ st' = f.st
    /\ output' = f.output

\* The call with frame f goes on: every argument and local is the frame's.
Resume(f) ==
    /\ suffix' = f.suffix
    /\ input' = f.input
    /\ pc' = f.pc
    /\ content' = f.content
    /\ pending' = f.pending
    /\ line' = f.line
    /\ lines' = f.lines
    /\ st' = f.st
    /\ output' = f.output

\* The interpreter switches to thread t, whose call has not returned.
Switch(t) ==
    /\ t # thread
    /\ saved[t].pc \notin {"running", "done"}
    /\ saved' = [saved EXCEPT ![thread] = Frame, ![t] = NoFrame]
    /\ thread' = t
    /\ Resume(saved[t])
    /\ UNCHANGED <<dumpVars, mainVars>>

SwitchThread == \E t \in Threads : Switch(t)

\* The calls the threads make.
ThreadCalls ==
    UNION {{NewFrame(sfx, c) :
              c \in Texts(ThreadPieces(Family(Lower(sfx))), MaxThreadPieces)} :
           sfx \in ThreadSuffixes}

\* Thread t1 runs a call, every other thread is about to start one.
InitThreads ==
    /\ \E f \in ThreadCalls : Call(f.suffix, f.input)
    /\ thread = "t1"
    /\ saved \in [Threads -> ThreadCalls \cup {NoFrame}]
    /\ \A t \in Threads : saved[t] = NoFrame <=> t = thread
    /\ NoDump
    /\ NoMain

NextThreads ==
    \/ Dispatch
    \/ HashEnter \/ HashFor \/ HashWhile \/ HashLineEnd \/ HashReturn
    \/ CStyleWhile \/ CStyleReturn
    \/ HtmlReturn
    \/ CssWhile \/ CssReturn
    \/ SqlSub \/ SqlFor \/ SqlWhile \/ SqlLineEnd \/ SqlReturn
    \/ LuaSub \/ HaskellSub
    \/ DashFor \/ DashWhile \/ DashLineEnd \/ DashReturn
    \/ LispEnter \/ LispFor \/ LispWhile \/ LispLineEnd \/ LispReturn
    \/ SwitchThread

ThreadsSpec == InitThreads /\ [][NextThreads]_vars

(***************************************************************************)
(* Dump (src/src/uithub_local/renderer.py)                                 *)
(*                                                                         *)
(* A FileDump is its path, written as Path.as_posix() writes it, and its   *)
(* token count; the count is what approximate_tokens gave for the loaded   *)
(* content, or 0 when loading failed.                                      *)
(***************************************************************************)

\* The greatest token count of a file.
MaxTokens == 2

\* The relative paths of the files of the tree.
Paths == {<<"a">>, <<"a", "/", "b">>, <<"b">>}

\* ord(c) for the characters of Paths.
CodePoint(c) ==
    CASE c = "/" -> 47
      [] c = "a" -> 97
      [] c = "b" -> 98

\* a < b for Python strings.
RECURSIVE StrLess(_, _)
StrLess(a, b) ==
    IF b = <<>> THEN FALSE
    ELSE IF a = <<>> THEN TRUE
    ELSE IF Head(a) = Head(b) THEN StrLess(Tail(a), Tail(b))
    ELSE CodePoint(Head(a)) < CodePoint(Head(b))

\* key(f) < key(g) for key = lambda f: (f.tokens, f.path.as_posix())
KeyLess(f, g) ==
    \/ f.tokens < g.tokens
    \/ f.tokens = g.tokens /\ StrLess(f.path, g.path)

\* f put into a list that is sorted largest key first, behind every element
\* whose key is not less than its own.
RECURSIVE InsertByKey(_, _)
InsertByKey(f, fds) ==
    IF fds = <<>> THEN <<f>>
    ELSE IF KeyLess(Head(fds), f) THEN <<f>> \o fds
    ELSE <<Head(fds)>> \o InsertByKey(f, Tail(fds))

\* The sort with the order of the keys turned round: smallest key first.
RECURSIVE SortSmallestFirst(_)
SortSmallestFirst(fds) ==
    IF fds = <<>> THEN <<>>
    ELSE LET rest == SortSmallestFirst(Tail(fds))
             f == Head(fds)
             RECURSIVE Put(_)
             Put(l) == IF l = <<>> THEN <<f>>
                       ELSE IF KeyLess(f, Head(l)) THEN <<f>> \o l
                       ELSE <<Head(l)>> \o Put(Tail(l))
         IN  Put(rest)

\* list.sort(key=..., reverse=True): largest key first, elements with equal
\* keys in the order they had.
RECURSIVE SortReverse(_)
SortReverse(fds) ==
    IF fds = <<>> THEN <<>>
    ELSE InsertByKey(fds[Len(fds)], SortReverse(SubSeq(fds, 1, Len(fds) - 1)))

\* sum(fd.tokens for fd in fds)
RECURSIVE SumTokens(_)
SumTokens(fds) ==
    IF fds = <<>> THEN 0 ELSE Head(fds).tokens + SumTokens(Tail(fds))

\* One iteration of the while loop of _truncate that forgets to lower
\* total_tokens.
TruncateStepKeepsTotal(fds, total) ==
    [file_dumps |-> Tail(fds), total_tokens |-> total]

\* One iteration of the while loop of _truncate.
TruncateStep(fds, total) ==
    LET victim == Head(fds)
    IN  [file_dumps |-> Tail(fds), total_tokens |-> total - victim.tokens]

\* The locals of split_by_tokens before its loop.
SplitLocals == [chunks |-> <<>>, current_chunk |-> <<>>, current_tokens |-> 0]

\* SplitStep that closes the current chunk also when it is empty.
SplitStepClosesEmpty(fd, s, limit) ==
    LET closed == IF s.current_tokens + fd.tokens > limit
                  THEN [chunks |-> Append(s.chunks, s.current_chunk),
                        current_chunk |-> <<>>, current_tokens |-> 0]
                  ELSE s
    IN  [closed EXCEPT !.current_chunk = Append(@, fd),
                       !.current_tokens = @ + fd.tokens]

\* One iteration of the for loop of split_by_tokens.
SplitStep(fd, s, limit) ==
    LET closed == IF s.current_tokens + fd.tokens > limit /\ s.current_chunk # <<>>
                  THEN [chunks |-> Append(s.chunks, s.current_chunk),
                        current_chunk |-> <<>>, current_tokens |-> 0]
                  ELSE s
    IN  [closed EXCEPT !.current_chunk = Append(@, fd),
                       !.current_tokens = @ + fd.tokens]

\* The lists of files with n more files at most, no path twice.
RECURSIVE FileLists(_)
FileLists(n) ==
    IF n = 0 THEN {<<>>}
    ELSE LET L == FileLists(n - 1)
         IN  L \cup UNION {{Append(l, [path |-> p, tokens |-> k]) :
                              p \in {q \in Paths : \A j \in 1..Len(l) : l[j].path # q},
                              k \in 0..MaxTokens} :
                           l \in L}

\* What no step of a Dump touches.
calls ==
    <<suffix, input, content, pending, line, lines, st, output, thread, saved,
      mainVars>>

\* No call of strip_comments.
NoCall ==
    /\ suffix = ""
    /\ input = <<>>
    /\ content = <<>>
    /\ pending = <<>>
    /\ line = <<>>
    /\ lines = <<>>
    /\ st = Locals
    /\ output = <<>>

\* Dump(files, root, max_tokens) about to run, split_by_tokens(split_tokens)
\* to be called on it.
InitDump ==
    /\ files \in FileLists(Cardinality(Paths))
    /\ max_tokens \in {None} \cup {<<n>> : n \in -1..(Cardinality(Paths) * MaxTokens)}
    /\ split_tokens \in 0..(MaxTokens + 1)
    /\ pc = "Dump"
    /\ file_dumps = <<>>
    /\ total_tokens = 0
    /\ chunks = <<>>
    /\ current_chunk = <<>>
    /\ current_tokens = 0
    /\ todo = <<>>
    /\ returned = <<>>
    /\ NoCall
    /\ OneThread
    /\ NoMain

\* Dump.__init__ up to the call of _truncate, or to its end.
DumpInit ==
    /\ pc = "Dump"
    /\ file_dumps' = files
    /\ total_tokens' = SumTokens(file_dumps')
    /\ pc' = IF max_tokens # None /\ total_tokens' > max_tokens[1]
             THEN "_truncate"
             ELSE "constructed"
    /\ UNCHANGED <<calls, files, max_tokens, split_tokens, chunks, current_chunk,
                   current_tokens, todo, returned>>

\* _truncate: the sort.
TruncateSort ==
    /\ pc = "_truncate"
    /\ file_dumps' = SortReverse(file_dumps)
    /\ pc' = "truncate_while"
    /\ UNCHANGED <<calls, files, max_tokens, split_tokens, total_tokens, chunks,
                   current_chunk, current_tokens, todo, returned>>

\* _truncate: one iteration of the while loop.
TruncateWhile ==
    /\ pc = "truncate_while"
    /\ total_tokens > max_tokens[1] /\ file_dumps # <<>>
    /\ LET next == TruncateStep(file_dumps, total_tokens)
       IN  /\ file_dumps' = next.file_dumps
           /\ total_tokens' = next.total_tokens
    /\ UNCHANGED <<calls, pc, files, max_tokens, split_tokens, chunks,
                   current_chunk, current_tokens, todo, returned>>

\* _truncate and Dump.__init__ return.
TruncateReturn ==
    /\ pc = "truncate_while"
    /\ ~(total_tokens > max_tokens[1] /\ file_dumps # <<>>)
    /\ pc' = "constructed"
    /\ UNCHANGED <<calls, dumpVars>>

\* split_by_tokens up to its loop, or its return for split_tokens <= 0.
SplitCall ==
    /\ pc = "constructed"
    /\ IF split_tokens <= 0
       THEN /\ returned' = <<file_dumps>>
            /\ pc' = "returned"
            /\ UNCHANGED <<chunks, current_chunk, current_tokens, todo>>
       ELSE /\ chunks' = SplitLocals.chunks
            /\ current_chunk' = SplitLocals.current_chunk
            /\ current_tokens' = SplitLocals.current_tokens
            /\ todo' = file_dumps
            /\ pc' = "split_for"
            /\ UNCHANGED returned
    /\ UNCHANGED <<calls, files, max_tokens, split_tokens, file_dumps, total_tokens>>

\* split_by_tokens: one iteration of the for loop.
SplitFor ==
    /\ pc = "split_for"
    /\ todo # <<>>
    /\ LET next == SplitStep(Head(todo),
                             [chunks |-> chunks, current_chunk |-> current_chunk,
                              current_tokens |-> current_tokens],
                             split_tokens)
       IN  /\ chunks' = next.chunks
           /\ current_chunk' = next.current_chunk
           /\ current_tokens' = next.current_tokens
    /\ todo' = Tail(todo)
    /\ UNCHANGED <<calls, pc, files, max_tokens, split_tokens, file_dumps,
                   total_tokens, returned>>

\* split_by_tokens behind its loop: the last chunk and the return.
SplitReturn ==
    /\ pc = "split_for"
    /\ todo = <<>>
    /\ chunks' = IF current_chunk # <<>> THEN Append(chunks, current_chunk) ELSE chunks
    /\ returned' = IF chunks' # <<>> THEN chunks' ELSE <<<<>>>>
    /\ pc' = "returned"
    /\ UNCHANGED <<calls, files, max_tokens, split_tokens, file_dumps, total_tokens,
                   current_chunk, current_tokens, todo>>

NextDump ==
    \/ DumpInit
    \/ TruncateSort \/ TruncateWhile \/ TruncateReturn
    \/ SplitCall \/ SplitFor \/ SplitReturn

DumpSpec == InitDump /\ [][NextDump]_vars

(***************************************************************************)
(* Properties                                                              *)
(***************************************************************************)

\* The suffixes strip_comments has a scanner for.
KnownExts ==
    HashExts \cup CStyleExts \cup HtmlExts \cup CssExts \cup SqlExts
        \cup LuaExts \cup HaskellExts \cup LispExts

\* A quote state of the running scanner is active.
InLiteral == st.in_single \/ st.in_double

SlashSlash == <<"/", "/">>
SlashStar == <<"/", "*">>
StarSlash == <<"*", "/">>

\* C1: a call whose lower-cased suffix is in none of the eight extension sets
\* (the empty suffix included) returns its input text, character for character.
C1_UnknownSuffixPassThrough ==
    (pc = "done" /\ Lower(suffix) \notin KnownExts) => output = input

C1_Witness ==
    /\ pc = "done"
    /\ suffix = ""
    /\ input = <<"#", " ", "/", "\n">>
    /\ output = input

\* C2: in the C-style scanner a character read while a quote state is active
\* is emitted as it is and the cursor moves by one; a backslash inside a
\* literal sets the escape flag and the character read under the flag changes
\* no quote state; a "//" read outside any literal drops the text up to the
\* next newline (or the end) and emits nothing but that newline.
C2_CStyleLiteralsKept ==
    [][(pc = "c_style" /\ st.i < Len(content)) =>
        LET char == At(content, st.i)
            n == SkipToNewline(content, st.i)
        IN  /\ (InLiteral \/ st.escape) =>
                /\ st'.result = Append(st.result, char)
                /\ st'.i = st.i + 1
            /\ st.escape =>
                /\ InLiteral
                /\ st'.in_single = st.in_single
                /\ st'.in_double = st.in_double
                /\ ~st'.escape
            /\ (InLiteral /\ ~st.escape /\ char = "\\") =>
                /\ st'.escape
                /\ st'.in_single = st.in_single
                /\ st'.in_double = st.in_double
            /\ (~InLiteral /\ StartsWith(content, SlashSlash, st.i)) =>
                /\ st'.i = (IF n < Len(content) THEN n + 1 ELSE n)
                /\ st'.result = st.result \o Slice(content, n, st'.i)
                /\ ~st'.in_single /\ ~st'.in_double
    ]_vars

C2_Witness ==
    /\ pc = "done"
    /\ suffix = ".js"
    /\ input = <<"\"", "/", "/", "\"">>
    /\ output = input

\* C3: in the C-style scanner a "/*" outside any literal with no "*/" behind
\* it moves the cursor to the end of the input and emits nothing; the call
\* then returns what was emitted before the "/*".
C3_CStyleUnterminatedBlock ==
    [][/\ (/\ pc = "c_style"
           /\ st.i < Len(content)
           /\ ~InLiteral
           /\ StartsWith(content, SlashStar, st.i)
           /\ Find(content, StarSlash, st.i + 2) < 0) =>
              /\ st'.i = Len(content)
              /\ st'.result = st.result
              /\ pc' = "c_style"
       /\ (pc = "c_style" /\ ~(st.i < Len(content))) =>
              /\ pc' = "done"
              /\ output' = st.result
    ]_vars

C3_Witness ==
    /\ pc = "done"
    /\ suffix = ".js"
    /\ input = <<"a", "/", "*", "\n">>
    /\ output = <<"a">>

\* C4: in the hash scanner a "#" read while no quote state is active ends the
\* line: the line kept is the text before the "#" without its trailing
\* whitespace; a "#" read inside a literal is emitted and the scan goes on;
\* the character read under the escape flag changes no quote state.
C4_HashCutsOutsideLiterals ==
    [][(pc = "hash_while" /\ st.i < Len(line)) =>
        LET char == At(line, st.i)
        IN  /\ (char = "#" /\ ~InLiteral) =>
                /\ lines' = Append(lines, RStrip(Slice(line, 0, st.i)))
                /\ pc' = "hash_for"
            /\ (char = "#" /\ InLiteral) =>
                /\ st'.result = Append(st.result, "#")
                /\ st'.i = st.i + 1
                /\ pc' = "hash_while"
                /\ lines' = lines
            /\ st.escape =>
                /\ InLiteral
                /\ st'.in_single = st.in_single
                /\ st'.in_double = st.in_double
    ]_vars

C4_Witness ==
    /\ pc = "done"
    /\ suffix = ".py"
    /\ input = <<"'", "\\", "'", "#">>
    /\ output = input

\* C5: in the SQL line pass a quote doubled inside its own literal moves the
\* cursor by two and leaves the quote state active; the line is cut exactly
\* at a "--" read while no quote state is active, and the kept prefix is
\* right-trimmed; a "--" inside a literal does not cut the line.
C5_SqlDoubledQuotesAndDashes ==
    [][(pc = "sql_while" /\ st.i < Len(line)) =>
        LET ch == At(line, st.i)
            doubled(q) == ch = q /\ st.i + 1 < Len(line) /\ At(line, st.i + 1) = q
            dashes == StartsWith(line, DashDash, st.i)
            cut == /\ pc' = "sql_for"
                   /\ lines' = Append(lines, RStrip(Slice(line, 0, st.i)))
        IN  /\ (st.in_single /\ doubled("'")) =>
                (st'.i = st.i + 2 /\ st'.in_single /\ ~st'.in_double /\ pc' = pc)
            /\ (st.in_double /\ doubled("\"")) =>
                (st'.i = st.i + 2 /\ st'.in_double /\ ~st'.in_single /\ pc' = pc)
            /\ (dashes /\ ~InLiteral) => cut
            /\ (dashes /\ InLiteral) =>
                (pc' = pc /\ lines' = lines /\ st'.i = st.i + 1)
            /\ pc' # pc => (dashes /\ ~InLiteral)
    ]_vars

C5_Witness ==
    /\ pc = "sql_while"
    /\ line = <<"'", "'", "'", "-">>
    /\ st.i = 3
    /\ st.in_single

\* C6: in the CSS scanner a "/*" read inside a string opens no comment and
\* whatever is read inside a string is emitted as it is; a backslash inside a
\* string is emitted together with the character after it and changes no
\* quote state; a "/*" outside any string opens a comment, and nothing is
\* emitted up to and including the "*/" that closes it.
C6_CssStringsKept ==
    [][(pc = "css" /\ st.i < Len(content)) =>
        LET ch == At(content, st.i)
        IN  /\ (~st.in_comment /\ InLiteral) =>
                /\ ~st'.in_comment
                /\ st'.i > st.i
                /\ st'.result = st.result \o Slice(content, st.i, st'.i)
            /\ (~st.in_comment /\ InLiteral /\ ch = "\\" /\ st.i + 1 < Len(content)) =>
                /\ st'.i = st.i + 2
                /\ st'.in_single = st.in_single
                /\ st'.in_double = st.in_double
            /\ (~st.in_comment /\ ~InLiteral /\ StartsWith(content, SlashStar, st.i)) =>
                /\ st'.in_comment
                /\ st'.i = st.i + 2
                /\ st'.result = st.result
            /\ st.in_comment =>
                /\ st'.result = st.result
                /\ st'.in_single = st.in_single
                /\ st'.in_double = st.in_double
                /\ IF StartsWith(content, StarSlash, st.i)
                   THEN ~st'.in_comment /\ st'.i = st.i + 2
                   ELSE st'.in_comment /\ st'.i = st.i + 1
    ]_vars

C6_Witness ==
    /\ pc = "done"
    /\ suffix = ".css"
    /\ input = <<"\"", "/", "*", "*", "/", "\"">>
    /\ output = input

\* a is b with some characters removed: the characters of a are characters
\* of b, in b's order.
RECURSIVE IsSubsequenceFrom(_, _, _, _)
IsSubsequenceFrom(a, b, i, j) ==
    IF i > Len(a) THEN TRUE
    ELSE IF j > Len(b) THEN FALSE
    ELSE IF a[i] = b[j] THEN IsSubsequenceFrom(a, b, i + 1, j + 1)
    ELSE IsSubsequenceFrom(a, b, i, j + 1)

IsSubsequence(a, b) == IsSubsequenceFrom(a, b, 1, 1)

\* The markers that start a comment in a family.
Markers(f) ==
    CASE f = "hash" -> {<<"#">>}
      [] f = "c_style" -> {SlashSlash, SlashStar}
      [] f = "html" -> {<<"<", "!", "-", "-">>}
      [] f = "css" -> {SlashStar}
      [] f = "sql" -> {DashDash, SlashStar}
      [] f = "lua" -> {DashDash}
      [] f = "haskell" -> {DashDash, <<"{", "-">>}
      [] f = "lisp" -> {<<";">>}
      [] OTHER -> {}

NoMarkers(f, t) == \A m \in Markers(f) : Find(t, m, 0) < 0

LineOriented == {"hash", "lisp", "sql", "lua", "haskell"}

\* t.split("\n")
RECURSIVE SplitOnNewline(_)
SplitOnNewline(t) ==
    LET k == Find(t, <<"\n">>, 0)
    IN  IF k < 0 THEN <<t>>
        ELSE <<Slice(t, 0, k)>> \o SplitOnNewline(Slice(t, k + 1, Len(t)))

\* t without the whitespace that ends its lines and without the whitespace,
\* line terminators included, that ends the text.
Trimmed(t) ==
    LET ls == SplitOnNewline(t)
    IN  RStrip(JoinLines([k \in 1..Len(ls) |-> RStrip(ls[k])]))

\* C7: stripping the output of a call again, for the same path, returns that
\* output.
C7_Idempotent ==
    pc = "done" => StripComments(output, suffix) = output

\* C8: a text with none of its family's comment markers is returned as it
\* is; by a line-oriented family it is returned up to whitespace removed at
\* the end of lines.
C8_NoMarkersUnchanged ==
    LET f == Family(Lower(suffix))
    IN  (pc = "done" /\ NoMarkers(f, input)) =>
            IF f \in LineOriented
            THEN IsSubsequence(output, input) /\ Trimmed(output) = Trimmed(input)
            ELSE output = input

\* C9: the output of a call is its input with characters removed: no
\* character is inserted, replaced or moved.
C9_OutputIsSubsequence ==
    pc = "done" => IsSubsequence(output, input)

\* The text a scanner loop runs over, and the loops.
Scanning == pc \in {"c_style", "css", "hash_while", "sql_while", "dash_while", "lisp_while"}

Scanned == IF pc \in {"c_style", "css"} THEN content ELSE line

RECURSIVE Work(_)
Work(ls) == IF ls = <<>> THEN 0 ELSE Len(Head(ls)) + 2 + Work(Tail(ls))

\* The number of steps a call can still take, at most.
Remaining ==
    CASE pc = "done" -> 0
      [] pc = "strip_comments" -> 3 + 3 * Len(content)
      [] pc \in {"hash", "lisp", "sql", "lua", "haskell"} -> 2 + 3 * Len(content)
      [] pc = "html" -> 1
      [] pc \in {"c_style", "css"} -> 1 + Len(content) - st.i
      [] pc \in {"hash_for", "sql_for", "dash_for", "lisp_for"} -> 1 + Work(pending)
      [] OTHER -> 2 + Work(pending) + Len(line) - st.i

\* C10: every call returns: a call that has not returned can take a step
\* that changes its state, each step lowers a bound on the steps left, an
\* iteration that stays in its loop moves the cursor forward, and the cursor
\* never passes the end of the scanned text.
C10_Total ==
    /\ [](/\ Scanning => (st.i >= 0 /\ st.i <= Len(Scanned))
          /\ Remaining >= 0
          /\ pc # "done" => ENABLED <<Next>>_vars)
    /\ [][/\ Remaining' < Remaining
          /\ (Scanning /\ pc' = pc) => (st'.i > st.i /\ st'.i <= Len(Scanned))
       ]_vars

C10_Witness ==
    /\ pc = "done"
    /\ suffix = ".css"
    /\ input = <<"\"", "/", "*", "\\">>
    /\ output = input

\* The family of the call.
CallFamily == Family(Lower(suffix))

\* a is the beginning of b.
IsPrefix(a, b) == Len(a) <= Len(b) /\ SubSeq(b, 1, Len(a)) = a

\* C11: the hash and the Lisp scanner return as many lines as they are
\* given, lines being what lies between "\n": line k of the output is line k
\* of the input, shortened or emptied.
C11_LineCountKept ==
    (pc = "done" /\ CallFamily \in {"hash", "lisp"}) =>
        LET ins == SplitOnNewline(input)
            outs == SplitOnNewline(output)
        IN  /\ Len(outs) = Len(ins)
            /\ \A k \in 1..Len(outs) : IsPrefix(outs[k], ins[k])

\* s without its spans from an open to the first close behind it, an open
\* that no close follows taking the rest of s with it.
RECURSIVE RemoveSpansFrom(_, _, _, _)
RemoveSpansFrom(s, open, close, k) ==
    IF k >= Len(s) THEN <<>>
    ELSE IF StartsWith(s, open, k)
    THEN LET e == Find(s, close, k + Len(open))
         IN  IF e < 0 THEN <<>>
             ELSE RemoveSpansFrom(s, open, close, e + Len(close))
    ELSE <<At(s, k)>> \o RemoveSpansFrom(s, open, close, k + 1)

RemoveSpans(s, open, close) == RemoveSpansFrom(s, open, close, 0)

\* C12: the HTML scanner removes every span from a "<!--" to the first "-->"
\* behind it, newlines included, and everything from a "<!--" that no "-->"
\* follows to the end of the input.
C12_HtmlSpansRemoved ==
    (pc = "done" /\ CallFamily = "html") =>
        output = RemoveSpans(input, <<"<", "!", "-", "-">>, <<"-", "-", ">">>)

\* The delimiters of a family's block comments.
Opener(f) ==
    CASE f = "sql" -> SlashStar
      [] f = "lua" -> <<"-", "-", "[", "[">>
      [] f = "haskell" -> <<"{", "-">>

Closer(f) ==
    CASE f = "sql" -> StarSlash
      [] f = "lua" -> <<"]", "]">>
      [] f = "haskell" -> <<"-", "}">>

\* The first position from k on where an open starts that no close follows,
\* -1 when there is none.
RECURSIVE FirstUnclosed(_, _, _, _)
FirstUnclosed(t, open, close, k) ==
    IF k + Len(open) > Len(t) THEN -1
    ELSE IF StartsWith(t, open, k) /\ Find(t, close, k + Len(open)) < 0 THEN k
    ELSE FirstUnclosed(t, open, close, k + 1)

\* t with every line boundary written "\n", as the line scanners rejoin it.
BreaksAsNewlines(t) ==
    [k \in 1..Len(t) |-> IF t[k] \in LineBreaks THEN "\n" ELSE t[k]]

\* C13: in the SQL, Lua and Haskell scanners a block opener that no closer
\* follows (and that no closer runs into) takes the rest of the input with
\* it: the output is made of characters from before that opener only.
C13_UnclosedBlockConsumed ==
    (pc = "done" /\ CallFamily \in {"sql", "lua", "haskell"}) =>
        LET open == Opener(CallFamily)
            close == Closer(CallFamily)
            k == FirstUnclosed(input, open, close, 0)
            from == IF k < Len(close) THEN 0 ELSE k - Len(close) + 1
        IN  (k >= 0 /\ Find(input, close, from) < 0) =>
                IsSubsequence(output, BreaksAsNewlines(Slice(input, 0, k)))

NewlineCount(t) == Cardinality({k \in 1..Len(t) : t[k] = "\n"})

\* The C-style scanner stands, outside any literal, before a marker m.
CStyleAt(c, s, m) ==
    /\ ~s.escape
    /\ ~s.in_single
    /\ ~s.in_double
    /\ StartsWith(c, m, s.i)

\* The end of the block comment that starts at k: behind its "*/", or the
\* end of the text.
BlockEnd(c, k) ==
    LET e == Find(c, StarSlash, k + 2) IN IF e < 0 THEN Len(c) ELSE e + 2

\* The end of the line comment that starts at k: its "\n", or the end.
LineEnd(c, k) ==
    LET e == Find(c, <<"\n">>, k) IN IF e < 0 THEN Len(c) ELSE e

\* The number of "\n" inside the block comments the scan of c removes from
\* state s on.
RECURSIVE BlockNewlines(_, _)
BlockNewlines(c, s) ==
    IF s.i >= Len(c) THEN 0
    ELSE (IF CStyleAt(c, s, SlashStar)
          THEN NewlineCount(Slice(c, s.i, BlockEnd(c, s.i)))
          ELSE 0) + BlockNewlines(c, CStyleStep(c, s))

\* C14: in the C-style scanner a "//" outside literals drops the text up to
\* the next "\n" and emits that "\n"; a "/*" outside literals drops the text
\* up to and including its "*/", newlines included; so the output has the
\* newlines of the input less those inside removed block comments.
C14_CStyleNewlines ==
    /\ []((pc = "done" /\ CallFamily = "c_style") =>
            NewlineCount(output) = NewlineCount(input) - BlockNewlines(input, Locals))
    /\ [][(pc = "c_style" /\ st.i < Len(content)) =>
            /\ CStyleAt(content, st, SlashSlash) =>
                LET n == LineEnd(content, st.i)
                IN  IF n < Len(content)
                    THEN st'.i = n + 1 /\ st'.result = Append(st.result, "\n")
                    ELSE st'.i = n /\ st'.result = st.result
            /\ CStyleAt(content, st, SlashStar) =>
                /\ st'.i = BlockEnd(content, st.i)
                /\ st'.result = st.result
            /\ NewlineCount(st'.result) - NewlineCount(st.result) =
                 IF CStyleAt(content, st, SlashStar) THEN 0
                 ELSE NewlineCount(Slice(content, st.i, st'.i))
       ]_vars

C14_Witness ==
    /\ pc = "done"
    /\ suffix = ".js"
    /\ input = <<"\n", "/", "*", "\n">>
    /\ output = <<"\n">>

\* C15: in the Lua and Haskell scanners the first pass removes every span
\* from a block opener to the first closer behind it; the line pass then cuts
\* a line at a "--" read while no quote state is active and right-trims the
\* kept prefix, and does not cut it at a "--" read inside a literal.
C15_DashCutsOutsideLiterals ==
    [][/\ pc \in {"lua", "haskell"} =>
            content' = RemoveSpans(content, Opener(pc), Closer(pc))
                           \o (LET k == FirstUnclosed(content, Opener(pc), Closer(pc), 0)
                               IN  IF k < 0 THEN <<>> ELSE Slice(content, k, Len(content)))
       /\ (pc = "dash_while" /\ st.i < Len(line) /\ StartsWith(line, DashDash, st.i)) =>
            IF InLiteral
            THEN pc' = pc /\ lines' = lines
            ELSE /\ pc' = "dash_for"
                 /\ lines' = Append(lines, RStrip(Slice(line, 0, st.i)))
    ]_vars

\* C16: the Lisp scanner tracks double-quoted strings only: a ";" read
\* inside a string is emitted, a ";" read outside ends the line there, with
\* the kept prefix right-trimmed; a backslash inside a string sets the escape
\* flag and the character read under the flag leaves the string state alone;
\* an apostrophe is emitted and changes no state.
C16_LispDoubleQuotesOnly ==
    [][(pc = "lisp_while" /\ st.i < Len(line)) =>
        LET char == At(line, st.i)
            emitted == /\ st'.result = Append(st.result, char)
                       /\ st'.i = st.i + 1
                       /\ pc' = pc
                       /\ lines' = lines
        IN  /\ ~st.in_single /\ ~st.in_double
            /\ (char = ";" /\ st.in_string) => emitted /\ st'.in_string
            /\ (char = ";" /\ ~st.in_string) =>
                /\ pc' = "lisp_for"
                /\ lines' = Append(lines, RStrip(Slice(line, 0, st.i)))
            /\ char = "'" => emitted /\ st'.in_string = st.in_string
            /\ st.escape => st.in_string /\ st'.in_string /\ ~st'.escape
            /\ (char = "\\" /\ st.in_string /\ ~st.escape) =>
                st'.escape /\ st'.in_string
            /\ (char = "\\" /\ ~st.in_string) => ~st'.escape
            /\ (char = "\"" /\ ~st.escape) => st'.in_string = ~st.in_string
    ]_vars

C16_Witness ==
    /\ pc = "done"
    /\ suffix = ".lisp"
    /\ input = <<"\"", ";", "\"", ";">>
    /\ output = <<"\"", ";", "\"">>

\* The frame of thread t's call, running or put aside.
CallOf(t) == IF t = thread THEN Frame ELSE saved[t]

\* C17: calls of strip_comments that run on several threads, their steps
\* interleaved in any way, do not touch each other: a step changes the frame
\* of the running call only, a switch changes no frame, no step changes the
\* arguments of a call, and every call returns what strip_comments returns
\* for its own text and suffix.
C17_ThreadsDoNotInterfere ==
    /\ [](\A t \in Threads :
            CallOf(t).pc = "done" =>
                CallOf(t).output = StripComments(CallOf(t).input, CallOf(t).suffix))
    /\ [][\A t \in Threads :
            /\ CallOf(t)'.input = CallOf(t).input
            /\ CallOf(t)'.suffix = CallOf(t).suffix
            /\ (t # thread \/ thread' # thread) => CallOf(t)' = CallOf(t)
       ]_vars

C17_Witness ==
    /\ thread = "t1"
    /\ pc = "done"
    /\ suffix = ".py"
    /\ input = <<"\n", "#">>
    /\ output = <<"\n">>
    /\ saved["t2"].pc = "done"
    /\ saved["t2"].suffix = ".SQL"
    /\ saved["t2"].input = <<"\n", "-">>
    /\ saved["t2"].output = <<"\n", "-">>

\* Dump.__init__ has set file_dumps and total_tokens.
DumpBuilt ==
    pc \in {"_truncate", "truncate_while", "constructed", "split_for", "returned"}

\* Dump.__init__ has returned.
DumpConstructed == pc \in {"constructed", "split_for", "returned"}

\* C18: from the moment a Dump has its file list, and after every iteration
\* of the truncation loop, total_tokens is the sum of the token counts of the
\* files in file_dumps; once a Dump is constructed with max_tokens an integer,
\* total_tokens is at most max_tokens or file_dumps is empty.
C18_TotalIsSumAndCapped ==
    /\ DumpBuilt => total_tokens = SumTokens(file_dumps)
    /\ (DumpConstructed /\ max_tokens # None) =>
            (total_tokens <= max_tokens[1] \/ file_dumps = <<>>)

C18_Witness ==
    /\ pc = "constructed"
    /\ files = <<[path |-> <<"a">>, tokens |-> 2],
                 [path |-> <<"a", "/", "b">>, tokens |-> 1],
                 [path |-> <<"b">>, tokens |-> 2]>>
    /\ max_tokens = <<3>>
    /\ total_tokens = 3
    /\ file_dumps = <<[path |-> <<"a">>, tokens |-> 2],
                      [path |-> <<"a", "/", "b">>, tokens |-> 1]>>

\* C19: every file _truncate removes has the greatest token count among the
\* files present, the greatest path among those with that count; a file is
\* removed only while total_tokens exceeds the limit, and with total_tokens
\* at or below it the loop ends; a Dump whose files do not exceed max_tokens,
\* or with max_tokens None, keeps its file list as given, in the given order.
C19_LargestRemovedFirst ==
    /\ []((pc = "constructed" /\ (max_tokens = None \/ SumTokens(files) <= max_tokens[1])) =>
            file_dumps = files)
    /\ [][pc = "truncate_while" =>
            /\ file_dumps' # file_dumps =>
                LET victim == Head(file_dumps)
                IN  /\ file_dumps' = Tail(file_dumps)
                    /\ \A k \in 1..Len(file_dumps) : ~KeyLess(victim, file_dumps[k])
                    /\ total_tokens > max_tokens[1]
            /\ total_tokens <= max_tokens[1] =>
                (file_dumps' = file_dumps /\ pc' = "constructed")
       ]_vars

C19_Witness ==
    /\ pc = "constructed"
    /\ files = <<[path |-> <<"a">>, tokens |-> 2],
                 [path |-> <<"b">>, tokens |-> 2],
                 [path |-> <<"a", "/", "b">>, tokens |-> 0]>>
    /\ max_tokens = <<2>>
    /\ file_dumps = <<[path |-> <<"a">>, tokens |-> 2],
                      [path |-> <<"a", "/", "b">>, tokens |-> 0]>>

\* The chunks one behind the other.
RECURSIVE Concat(_)
Concat(chs) == IF chs = <<>> THEN <<>> ELSE Head(chs) \o Concat(Tail(chs))

LineLoops == {"hash_while", "lisp_while", "sql_while", "dash_while"}

LineFors == {"hash_for", "lisp_for", "sql_for", "dash_for"}

\* C22: a line scanner of the 4.2 policy (Hash, Lisp, the "--" line pass of
\* Lua and Haskell) that reaches the end of a line without a marker outside a
\* literal keeps the line right-trimmed, as it right-trims the prefix it
\* keeps of a line where it finds a marker.
C22_MarkerFreeLineTrimmed ==
    [][(pc \in {"hash_while", "lisp_while", "dash_while"} /\ pc' # pc) =>
         lines' = Append(lines, RStrip(Slice(line, 0, st.i)))
    ]_vars

\* A quote state of the running scanner, the Lisp string state included.
Quoted == st.in_single \/ st.in_double \/ st.in_string

\* C23: in the scanners with an escape flag (Hash, C-style, Lisp, the "--"
\* line pass) the flag is set only by a backslash read while a quote state
\* is active and no escape is pending; a backslash read outside any literal
\* leaves the flag clear.
C23_EscapeOnlyInsideLiterals ==
    [][(pc \in {"hash_while", "c_style", "lisp_while", "dash_while"}
            /\ pc' = pc /\ st.i < Len(Scanned)) =>
         /\ st'.escape => (At(Scanned, st.i) = "\\" /\ ~st.escape /\ Quoted)
         /\ (At(Scanned, st.i) = "\\" /\ ~Quoted) => ~st'.escape
    ]_vars

\* The loops of the scanners that track both quote kinds.
TwoQuoteLoops == {"hash_while", "c_style", "css", "sql_while", "dash_while"}

\* C24: in the scanners that track both quote kinds the single-quote state
\* and the double-quote state are never active together, and an iteration
\* changes a quote state only when it reads that quote while the other state
\* is inactive and no escape is pending.
C24_QuoteStatesExclusive ==
    /\ [](pc \in TwoQuoteLoops => ~(st.in_single /\ st.in_double))
    /\ [][(pc \in TwoQuoteLoops /\ pc' = pc) =>
            /\ st'.in_single # st.in_single =>
                 (At(Scanned, st.i) = "'" /\ ~st.in_double /\ ~st.escape)
            /\ st'.in_double # st.in_double =>
                 (At(Scanned, st.i) = "\"" /\ ~st.in_single /\ ~st.escape)
       ]_vars

C24_Witness ==
    /\ pc = "hash_while"
    /\ line = <<"\"", "'">>
    /\ st.i = 2
    /\ st.in_double
    /\ ~st.in_single

\* What a line scanner keeps of line l read with cleared locals.
KeptAlone(loop, l) ==
    CASE loop = "hash_while" -> HashScan(l, Locals)
      [] loop = "lisp_while" -> LispScan(l, Locals)
      [] loop = "sql_while" -> StripSqlLineComment(l)
      [] loop = "dash_while" -> StripLineComment(l, DashDash)

\* C25: the line scanners (Hash, Lisp, SQL line pass, "--" line pass) start
\* every line with cleared quote and escape state, and what they keep of a
\* line is what they keep of that line read alone, whatever the lines before
\* left open.
C25_LineStateCleared ==
    [][/\ (pc \in LineFors /\ pc' \in LineLoops) =>
            /\ st'.i = 0
            /\ ~st'.in_single /\ ~st'.in_double /\ ~st'.in_string /\ ~st'.escape
       /\ (pc \in LineLoops /\ pc' \in LineFors) =>
            lines' = Append(lines, KeptAlone(pc, line))
    ]_vars

C25_Witness ==
    /\ pc = "done"
    /\ suffix = ".py"
    /\ input = <<"'", "\n", "#", "a">>
    /\ output = <<"'", "\n">>

\* t without its spans from a "/*" to the first "*/" behind it.
RECURSIVE ClosedSpansRemoved(_)
ClosedSpansRemoved(t) ==
    IF t = <<>> THEN <<>>
    ELSE IF StartsWith(t, SlashStar, 0) /\ Find(t, StarSlash, 2) >= 0
    THEN ClosedSpansRemoved(Slice(t, Find(t, StarSlash, 2) + 2, Len(t)))
    ELSE <<Head(t)>> \o ClosedSpansRemoved(Tail(t))

\* C26: the SQL scanner first removes, from the whole text and with no
\* regard to quotes or "--", every span from a "/*" to the first "*/" behind
\* it, and then applies the "--" line pass to the lines of what is left.
C26_SqlBlocksThenLines ==
    /\ []((pc = "done" /\ CallFamily = "sql") =>
            LET ls == SplitLines(ClosedSpansRemoved(input))
            IN  output = JoinLines([k \in 1..Len(ls) |-> StripSqlLineComment(ls[k])]))
    /\ [][/\ pc = "sql" =>
               /\ content' = ClosedSpansRemoved(content)
               /\ pending' = SplitLines(content')
               /\ pc' = "sql_for"
          /\ pc \in {"sql_for", "sql_while"} => content' = content
       ]_vars

C26_Witness ==
    /\ pc = "done"
    /\ suffix = ".SQL"
    /\ input = <<"'", "/", "*", "*", "/", "'">>
    /\ output = <<"'", "'">>

(***************************************************************************)
(* Calls of the C-style scanner on texts of comment markers                *)
(***************************************************************************)

\* The number of pieces of a text, at most.
MaxCStylePieces == 4

CStyleSuffixes == {".js", ".c"}

\* The pieces of the texts: the markers whole, and their characters.
CStylePieces ==
    {<<"/", "/">>, <<"/", "*">>, <<"*", "/">>, <<"/">>, <<"*">>,
     <<"\"">>, <<"\\">>, <<"\n">>, <<"a">>}

InitCStyle ==
    /\ \E sfx \in CStyleSuffixes :
         \E c \in Texts(CStylePieces, MaxCStylePieces) : Call(sfx, c)
    /\ OneThread
    /\ NoDump
    /\ NoMain

NextCStyle == Dispatch \/ CStyleWhile \/ CStyleReturn

CStyleSpec == InitCStyle /\ [][NextCStyle]_vars

\* The text between positions a and b holds the marker m.
Holds(c, a, b, m) == \E k \in a..(b - Len(m)) : StartsWith(c, m, k)

\* C29: the comment forms of the C-style scanner do not nest: the step at a
\* "//" outside literals goes to the line's "\n" (and emits it) although a
\* "/*" lies in between, and leaves no state behind; the step at a "/*"
\* outside literals goes behind the first "*/" although a "//" lies in
\* between.
C29_CommentsDoNotNest ==
    [][(pc = "c_style" /\ st.i < Len(content)) =>
         /\ (CStyleAt(content, st, SlashSlash)
               /\ Holds(content, st.i + 2, LineEnd(content, st.i), SlashStar)) =>
              LET n == LineEnd(content, st.i)
              IN  /\ st'.i = IF n < Len(content) THEN n + 1 ELSE n
                  /\ st'.result = IF n < Len(content) THEN Append(st.result, "\n")
                                  ELSE st.result
                  /\ ~st'.in_single /\ ~st'.in_double /\ ~st'.escape /\ ~st'.in_comment
         /\ (CStyleAt(content, st, SlashStar)
               /\ Find(content, StarSlash, st.i + 2) >= 0
               /\ Holds(content, st.i + 2, Find(content, StarSlash, st.i + 2), SlashSlash)) =>
              /\ st'.i = Find(content, StarSlash, st.i + 2) + 2
              /\ st'.result = st.result
              /\ ~st'.in_single /\ ~st'.in_double /\ ~st'.escape /\ ~st'.in_comment
    ]_vars

C29_Witness ==
    /\ pc = "done"
    /\ suffix = ".js"
    /\ input = <<"/", "/", "/", "*", "\n", "a">>
    /\ output = <<"\n", "a">>

\* The quote and escape state behind the first k characters of t, no comment
\* marker being looked at.
RECURSIVE QuoteState(_, _)
QuoteState(t, k) ==
    IF k = 0 THEN [in_single |-> FALSE, in_double |-> FALSE, escape |-> FALSE]
    ELSE LET q == QuoteState(t, k - 1)
             char == t[k]
         IN  IF q.escape THEN [q EXCEPT !.escape = FALSE]
             ELSE IF char = "\\" /\ (q.in_single \/ q.in_double)
             THEN [q EXCEPT !.escape = TRUE]
             ELSE IF char = "'" /\ ~q.in_double
             THEN [q EXCEPT !.in_single = ~q.in_single]
             ELSE IF char = "\"" /\ ~q.in_single
             THEN [q EXCEPT !.in_double = ~q.in_double]
             ELSE q

\* No "//" and no "/*" of t starts outside a quoted literal.
NoMarkerOutsideLiterals(t) ==
    \A k \in 0..(Len(t) - 2) :
        (StartsWith(t, SlashSlash, k) \/ StartsWith(t, SlashStar, k)) =>
            LET q == QuoteState(t, k)
            IN  q.in_single \/ q.in_double \/ q.escape

\* C30: the output of the C-style scanner holds no "//" and no "/*" outside
\* a quoted literal, and the scanner returns it unchanged.
C30_CStyleIdempotent ==
    (pc = "done" /\ CallFamily = "c_style") =>
        /\ NoMarkerOutsideLiterals(output)
        /\ StripCStyleComments(output) = output

C30_Witness ==
    /\ pc = "done"
    /\ suffix = ".js"
    /\ input = <<"*", "/", "*", "*", "/", "/">>
    /\ output = <<"*", "/">>

(***************************************************************************)
(* main (cli.py) and download_repo (downloader.py)                         *)
(*                                                                         *)
(* A run of main from its parameters to its end: the checks of the path    *)
(* sources and of --split, then either collect_files and render on the     *)
(* local path or the same inside "with download_repo(...) as tmp", then    *)
(* the writing of the outputs.  log is the sequence of the calls the run   *)
(* makes to the world, each <<name, n>>: <<"get", attempt>>,               *)
(* <<"sleep", seconds>>, <<"TemporaryDirectory", 0>>, <<"yield", 0>>,      *)
(* <<"cleanup", 0>>, <<"collect_files", 0>>, <<"write_text", k>>,          *)
(* <<"echo", 1>> to stdout and <<"echo", 2>> to stderr.                    *)
(***************************************************************************)

\* The number of outputs render_split returns, at most.
MaxOutputs == 2

\* The status codes of the modelled responses.
Statuses == {200, 404, 500}

\* The values of --remote-url.
Urls ==
    {"", "https://github.com/o/r", "https://github.com/o/r/tree/main/sub",
     "https://example.com/o/r"}

\* _archive_url(url), for the urls above: whether it raises ValueError, and
\* the subtree it returns.
ArchiveUrl(url) ==
    CASE url = "https://github.com/o/r/tree/main/sub" ->
           [raises |-> FALSE, subtree |-> <<"sub">>]
      [] url = "https://example.com/o/r" ->
           [raises |-> TRUE, subtree |-> None]
      [] OTHER ->
           [raises |-> FALSE, subtree |-> None]

\* What no step of main touches.
apart ==
    <<suffix, input, content, pending, line, lines, st, output, thread, saved,
      dumpVars>>

\* bool(x) of an optional integer.
TruthyInt(x) == x # None /\ x[1] # 0

\* bool(x) of an optional string.
TruthyStr(x) == x # None /\ x[1] # ""

\* path_sources with local_path left out of the sum.
PathSourcesWithoutLocalPath ==
    (IF path # None THEN 1 ELSE 0) + (IF remote_url # None THEN 1 ELSE 0)

\* sum([path is not None, local_path is not None, remote_url is not None])
PathSources ==
    (IF path # None THEN 1 ELSE 0) + (IF local_path # None THEN 1 ELSE 0)
        + (IF remote_url # None THEN 1 ELSE 0)

OnlyOneMessage ==
    "UsageError: Only one of PATH, --local-path, or --remote-url can be used"

RequiredMessage ==
    "UsageError: One of PATH, --local-path, or --remote-url is required"

\* A run of main about to start.
InitMain ==
    /\ pc = "main"
    /\ path \in {None, <<"repo">>}
    /\ local_path \in {None, <<"local">>}
    /\ remote_url \in {None} \cup {<<u>> : u \in Urls}
    /\ split \in {None, <<0>>, <<MaxOutputs>>}
    /\ outfile \in {None, <<"out.txt">>}
    /\ stdout \in BOOLEAN
    /\ outputs = None
    /\ raised = ""
    /\ subtree = None
    /\ attempt = 0
    /\ backoff = 1
    /\ response = None
    /\ tmp = "unset"
    /\ log = <<>>
    /\ NoCall
    /\ OneThread
    /\ NoDump

\* main: the count of the path sources and its two checks.
MainSources ==
    /\ pc = "main"
    /\ IF PathSources > 1
       THEN raised' = OnlyOneMessage /\ pc' = "exit"
       ELSE IF PathSources = 0
       THEN raised' = RequiredMessage /\ pc' = "exit"
       ELSE raised' = raised /\ pc' = "consolidate"
    /\ UNCHANGED <<apart, path, local_path, remote_url, split, outfile, stdout,
                   outputs, subtree, attempt, backoff, response, tmp, log>>

\* main: path = local_path, the checks of --split, and the branch on
\* remote_url.
MainSplit ==
    /\ pc = "consolidate"
    /\ path' = IF local_path # None THEN local_path ELSE path
    /\ IF split # None /\ split[1] <= 0
       THEN raised' = "UsageError: --split must be a positive integer" /\ pc' = "exit"
       ELSE IF TruthyInt(split) /\ outfile = None
       THEN raised' = "UsageError: --split requires --outfile" /\ pc' = "exit"
       ELSE /\ raised' = raised
            /\ pc' = IF TruthyStr(remote_url) THEN "download_repo" ELSE "collect_files"
    /\ UNCHANGED <<apart, local_path, remote_url, split, outfile, stdout,
                   outputs, subtree, attempt, backoff, response, tmp, log>>

\* download_repo up to its for loop.
DownloadRepo ==
    /\ pc = "download_repo"
    /\ LET a == ArchiveUrl(remote_url[1])
       IN  IF a.raises
           THEN /\ raised' = "ValueError: Unsupported host"
                /\ pc' = "except"
                /\ UNCHANGED <<subtree, attempt, backoff, response>>
           ELSE /\ subtree' = a.subtree
                /\ response' = None
                /\ backoff' = 1
                /\ attempt' = 0
                /\ pc' = "get"
                /\ raised' = raised
    /\ UNCHANGED <<apart, path, local_path, remote_url, split, outfile, stdout,
                   outputs, tmp, log>>

\* The rest of an iteration of the for loop that got a response with status
\* code status, with a sleep after the last attempt as well.
AfterResponseSleepsAlways(status, att, wait) ==
    IF status < 500
    THEN [again |-> FALSE, sleep |-> None, backoff |-> wait]
    ELSE [again |-> att < 2, sleep |-> <<wait>>, backoff |-> wait * 2]

\* The rest of an iteration of the for loop that got a response with status
\* code status: whether another iteration follows, the sleep, the backoff.
AfterResponse(status, att, wait) ==
    IF status < 500
    THEN [again |-> FALSE, sleep |-> None, backoff |-> wait]
    ELSE IF att < 2
    THEN [again |-> TRUE, sleep |-> <<wait>>, backoff |-> wait * 2]
    ELSE [again |-> FALSE, sleep |-> None, backoff |-> wait]

\* One iteration of "for attempt in range(3)": requests.get raises, or it
\* returns a response.
Get ==
    /\ pc = "get"
    /\ attempt < 3
    /\ \/ /\ log' = Append(log, <<"get", attempt>>)
          /\ raised' = "requests.RequestException"
          /\ pc' = "except"
          /\ UNCHANGED <<attempt, backoff, response>>
       \/ \E status \in Statuses :
            LET r == AfterResponse(status, attempt, backoff)
            IN  /\ response' = <<status>>
                /\ log' = log \o <<<<"get", attempt>>>>
                              \o (IF r.sleep = None THEN <<>>
                                  ELSE <<<<"sleep", r.sleep[1]>>>>)
                /\ backoff' = r.backoff
                /\ attempt' = IF r.again THEN attempt + 1 ELSE attempt
                /\ pc' = IF r.again THEN "get" ELSE "status"
                /\ raised' = raised
    /\ UNCHANGED <<apart, path, local_path, remote_url, split, outfile, stdout,
                   outputs, subtree, tmp>>

\* download_repo: the check of the last response's status code.
RaiseForStatus ==
    /\ pc = "status"
    /\ IF response[1] >= 400
       THEN raised' = "RuntimeError: Failed to download" /\ pc' = "except"
       ELSE raised' = raised /\ pc' = "TemporaryDirectory"
    /\ UNCHANGED <<apart, path, local_path, remote_url, split, outfile, stdout,
                   outputs, subtree, attempt, backoff, response, tmp, log>>

\* tmp = TemporaryDirectory()
MakeTmp ==
    /\ pc = "TemporaryDirectory"
    /\ tmp' = "exists"
    /\ log' = Append(log, <<"TemporaryDirectory", 0>>)
    /\ pc' = "extractall"
    /\ UNCHANGED <<apart, path, local_path, remote_url, split, outfile, stdout,
                   outputs, raised, subtree, attempt, backoff, response>>

\* The extraction of the archive: it succeeds, or zipfile raises.
Extract ==
    /\ pc = "extractall"
    /\ \/ raised' = raised /\ pc' = "target"
       \/ raised' = "zipfile.BadZipFile" /\ pc' = "finally"
    /\ UNCHANGED <<apart, path, local_path, remote_url, split, outfile, stdout,
                   outputs, subtree, attempt, backoff, response, tmp, log>>

\* Target whose "Subtree path not found" is raised outside the try statement.
TargetRaisesPastFinally ==
    /\ pc = "target"
    /\ \/ /\ log' = Append(log, <<"yield", 0>>)
          /\ raised' = raised
          /\ pc' = "with"
       \/ /\ subtree # None
          /\ raised' = "RuntimeError: Subtree path not found in repository"
          /\ pc' = "except"
          /\ log' = log
    /\ UNCHANGED <<apart, path, local_path, remote_url, split, outfile, stdout,
                   outputs, subtree, attempt, backoff, response, tmp>>

\* download_repo: the choice of target, and "yield target" or, when the
\* subtree is not in the archive, the RuntimeError.
Target ==
    /\ pc = "target"
    /\ \/ /\ log' = Append(log, <<"yield", 0>>)
          /\ raised' = raised
          /\ pc' = "with"
       \/ /\ subtree # None
          /\ raised' = "RuntimeError: Subtree path not found in repository"
          /\ pc' = "finally"
          /\ log' = log
    /\ UNCHANGED <<apart, path, local_path, remote_url, split, outfile, stdout,
                   outputs, subtree, attempt, backoff, response, tmp>>

\* The number of outputs a rendering can give: one of render, any number of
\* render_split.
Renderings == IF TruthyInt(split) THEN 0..MaxOutputs ELSE {1}

\* main: the body of "with download_repo(...) as tmp": collect_files and
\* the rendering; either may raise.
WithBlock ==
    /\ pc = "with"
    /\ log' = Append(log, <<"collect_files", 0>>)
    /\ \/ \E n \in Renderings : outputs' = <<n>> /\ raised' = raised
       \/ outputs' = outputs /\ raised' = "Exception"
    /\ pc' = "finally"
    /\ UNCHANGED <<apart, path, local_path, remote_url, split, outfile, stdout,
                   subtree, attempt, backoff, response, tmp>>

\* download_repo: "finally: tmp.cleanup()", and the exception in flight, if
\* any, going on to main's handler.
Finally ==
    /\ pc = "finally"
    /\ tmp' = "cleaned"
    /\ log' = Append(log, <<"cleanup", 0>>)
    /\ pc' = IF raised # "" THEN "except" ELSE "output"
    /\ UNCHANGED <<apart, path, local_path, remote_url, split, outfile, stdout,
                   outputs, raised, subtree, attempt, backoff, response>>

\* main: collect_files and the rendering on the local path; either may
\* raise, and collect_files does with no path.
Local ==
    /\ pc = "collect_files"
    /\ log' = Append(log, <<"collect_files", 0>>)
    /\ \/ /\ path # None
          /\ \E n \in Renderings : outputs' = <<n>> /\ raised' = raised
          /\ pc' = "output"
       \/ /\ outputs' = outputs
          /\ raised' = "Exception"
          /\ pc' = "except"
    /\ UNCHANGED <<apart, path, local_path, remote_url, split, outfile, stdout,
                   subtree, attempt, backoff, response, tmp>>

\* main: "except Exception as exc": the message to stderr and SystemExit(1).
Except ==
    /\ pc = "except"
    /\ log' = Append(log, <<"echo", 2>>)
    /\ raised' = "SystemExit: 1"
    /\ pc' = "exit"
    /\ UNCHANGED <<apart, path, local_path, remote_url, split, outfile, stdout,
                   outputs, subtree, attempt, backoff, response, tmp>>

\* The calls of the loop that writes outputs k..n of a split.
RECURSIVE WriteEach(_, _)
WriteEach(k, n) ==
    IF k > n THEN <<>>
    ELSE <<<<"write_text", k>>>> \o (IF stdout THEN <<<<"echo", 1>>>> ELSE <<>>)
             \o WriteEach(k + 1, n)

\* main: the writing of the outputs.
Output ==
    /\ pc = "output"
    /\ log' = log \o (IF TruthyInt(split)
                      THEN WriteEach(1, outputs[1])
                      ELSE (IF outfile # None THEN <<<<"write_text", 1>>>> ELSE <<>>)
                               \o (IF stdout THEN <<<<"echo", 1>>>> ELSE <<>>))
    /\ pc' = "exit"
    /\ UNCHANGED <<apart, path, local_path, remote_url, split, outfile, stdout,
                   outputs, raised, subtree, attempt, backoff, response, tmp>>

NextMain ==
    \/ MainSources \/ MainSplit
    \/ DownloadRepo \/ Get \/ RaiseForStatus \/ MakeTmp \/ Extract \/ Target
    \/ WithBlock \/ Finally
    \/ Local \/ Except \/ Output

MainSpec == InitMain /\ [][NextMain]_vars

\* The number of calls named op in the log l.
Count(l, op) == Cardinality({k \in 1..Len(l) : l[k][1] = op})

\* C21: main wants exactly one of PATH, --local-path and --remote-url: with
\* two or more it ends with the usage error "Only one of ... can be used",
\* with none with "One of ... is required", and in both cases it has called
\* nothing: no collect_files, no download, no write; with exactly one it
\* goes on.
C21_ExactlyOneSource ==
    /\ [](raised \in {OnlyOneMessage, RequiredMessage} =>
            /\ pc = "exit"
            /\ log = <<>>
            /\ outputs = None
            /\ tmp = "unset"
            /\ response = None)
    /\ [][/\ pc # "exit"
          /\ pc = "main" =>
               LET given == {s \in {"PATH", "--local-path", "--remote-url"} :
                               CASE s = "PATH" -> path # None
                                 [] s = "--local-path" -> local_path # None
                                 [] s = "--remote-url" -> remote_url # None}
               IN  /\ Cardinality(given) > 1 => raised' = OnlyOneMessage
                   /\ Cardinality(given) = 0 => raised' = RequiredMessage
                   /\ Cardinality(given) = 1 => (raised' = "" /\ pc' # "exit")
       ]_vars

C21_Witness ==
    /\ pc = "exit"
    /\ raised = OnlyOneMessage
    /\ local_path # None
    /\ remote_url = <<"https://github.com/o/r">>
    /\ path = None
    /\ log = <<>>

\* The requests and waits of the log l.
GetsAndSleeps(l) == SelectSeq(l, LAMBDA e : e[1] \in {"get", "sleep"})

\* C27: a call of download_repo makes at most three GET requests, with a
\* wait of 1 second before the second and of 2 seconds before the third and
\* none after the third; it makes a further request only after a response
\* with status >= 500, and the first response with status < 500 ends the
\* loop; after the loop a status >= 400 raises RuntimeError with no
\* temporary directory created, and a status < 400 goes on to the
\* extraction.
C27_AtMostThreeGets ==
    /\ [](/\ IsPrefix(GetsAndSleeps(log),
                      <<<<"get", 0>>, <<"sleep", 1>>, <<"get", 1>>, <<"sleep", 2>>,
                        <<"get", 2>>>>)
          /\ (pc = "get" /\ Count(log, "get") > 0) => response[1] >= 500
          /\ Count(log, "TemporaryDirectory") > 0 => (response # None /\ response[1] < 400))
    /\ [][/\ (pc = "get" /\ response' # response) => Count(log', "get") = Count(log, "get") + 1
          /\ (pc = "get" /\ Count(log', "get") > Count(log, "get")
                /\ pc' # "except" /\ response'[1] < 500) => pc' = "status"
          /\ pc = "status" =>
               IF response[1] >= 400
               THEN /\ raised' = "RuntimeError: Failed to download"
                    /\ pc' = "except"
                    /\ tmp' = "unset"
                    /\ log' = log
               ELSE pc' = "TemporaryDirectory" /\ raised' = ""
       ]_vars

C27_Witness ==
    /\ pc = "exit"
    /\ GetsAndSleeps(log) =
         <<<<"get", 0>>, <<"sleep", 1>>, <<"get", 1>>, <<"sleep", 2>>, <<"get", 2>>>>
    /\ response = <<500>>
    /\ raised = "SystemExit: 1"
    /\ tmp = "unset"

\* The positions of the calls named op in the log.
Positions(op) == {k \in 1..Len(log) : log[k][1] = op}

\* C28: once download_repo has created its temporary directory, the
\* directory is cleaned up exactly once on every way out: after the with
\* block has ended normally or by an exception, after a failed extraction
\* and after the "Subtree path not found" error; it is never yielded once
\* cleaned up, and it exists while the with block runs.
C28_TmpCleanedOnce ==
    /\ Count(log, "cleanup") <= 1
    /\ Count(log, "TemporaryDirectory") <= 1
    /\ tmp = "cleaned" <=> Count(log, "cleanup") = 1
    /\ tmp = "unset" <=> Count(log, "TemporaryDirectory") = 0
    /\ \A c \in Positions("cleanup") :
         /\ \E t \in Positions("TemporaryDirectory") : t < c
         /\ \A y \in Positions("yield") : y < c
    /\ pc = "with" => tmp = "exists"
    /\ (pc \in {"except", "output", "exit"} /\ tmp # "unset") => tmp = "cleaned"

C28_Witness ==
    /\ pc = "exit"
    /\ subtree = <<"sub">>
    /\ log = <<<<"get", 0>>, <<"TemporaryDirectory", 0>>, <<"cleanup", 0>>, <<"echo", 2>>>>
    /\ tmp = "cleaned"

====
